---- MODULE Spec2Model ----
(***************************************************************************)
(* Model of the UDF catalog (IR/udf/manager.py), the UDF inliner           *)
(* (IR/intermediateRepresentation.py) and the row evaluator                *)
(* (sql_runner.py) of Database-PRISM.                                      *)
(*                                                                         *)
(* Python objects are encoded as records with a kind field k:              *)
(*   int, float, bool, str, None  ->  [k, n, d, s]  (n/d an exact          *)
(*                                    rational for float, s the text)      *)
(*   dict                         ->  [k |-> "dict", items |-> record]     *)
(*   list / tuple                 ->  [k |-> "list", elems |-> sequence]   *)
(* An outcome of a call is [st, v, e, msg]: st = "ok" with the value v, or *)
(* st = "err" with the name e of the exception raised and its message.     *)
(***************************************************************************)
EXTENDS Integers, Sequences, FiniteSets, TLC

----------------------------------------------------------------------------
(* Python values                                                           *)

Abs(n) == IF n < 0 THEN -n ELSE n

RECURSIVE Gcd(_, _)
Gcd(a, b) == IF b = 0 THEN a ELSE Gcd(b, a % b)

PyInt(n) == [k |-> "int", n |-> n, d |-> 1, s |-> ""]

PyFloat(n, d) ==
    LET g == Gcd(Abs(n), Abs(d))
        sg == IF d < 0 THEN -1 ELSE 1
    IN  [k |-> "float", n |-> sg * (n \div g), d |-> sg * (d \div g), s |-> ""]

PyBool(b) == [k |-> "bool", n |-> IF b THEN 1 ELSE 0, d |-> 1, s |-> ""]

PyStr(s) == [k |-> "str", n |-> 0, d |-> 1, s |-> s]

PyNone == [k |-> "none", n |-> 0, d |-> 1, s |-> ""]

PyDict(f) == [k |-> "dict", items |-> f]

PyList(q) == [k |-> "list", elems |-> q]

IsStr(x) == x.k = "str"
IsDictObj(x) == x.k = "dict"
IsListObj(x) == x.k = "list"
IsNum(x) == x.k \in {"int", "float", "bool"}

Ok(v) == [st |-> "ok", v |-> v, e |-> "", msg |-> ""]
(* raise e(msg): msg names the raise statement where the code has several *)
Raise(e, msg) == [st |-> "err", v |-> PyNone, e |-> e, msg |-> msg]
Err(e) == Raise(e, "")

(* dict.get(key, default) *)
DictGet(dct, key, default) ==
    IF key \in DOMAIN dct.items THEN dct.items[key] ELSE default

HasKey(dct, key) == key \in DOMAIN dct.items

(* Python truthiness: bool(x) *)
Truthy(x) ==
    CASE IsNum(x) -> x.n # 0
      [] x.k = "str" -> x.s # ""
      [] x.k = "none" -> FALSE
      [] x.k = "dict" -> DOMAIN x.items # {}
      [] x.k = "list" -> Len(x.elems) > 0

----------------------------------------------------------------------------
(* Python strings                                                          *)

Ch(s, i) == SubSeq(s, i, i)

UpperChars == "ABCDEFGHIJKLMNOPQRSTUVWXYZ"
LowerChars == "abcdefghijklmnopqrstuvwxyz"
DigitChars == "0123456789"
(* the characters of the model's strings, in code-point order *)
AsciiOrder == " \"'()*+,-./0123456789;<=>ABCDEFGHIJKLMNOPQRSTUVWXYZ_abcdefghijklmnopqrstuvwxyz"

InChars(c, chars) == \E i \in 1..Len(chars) : Ch(chars, i) = c
IndexIn(c, chars) == CHOOSE i \in 1..Len(chars) : Ch(chars, i) = c

IsDigit(c) == InChars(c, DigitChars)
IsSpace(c) == c = " "
IsWordChar(c) == InChars(c, DigitChars) \/ InChars(c, UpperChars)
                 \/ InChars(c, LowerChars) \/ c = "_"

LowerCh(c) == IF InChars(c, UpperChars) THEN Ch(LowerChars, IndexIn(c, UpperChars)) ELSE c

(* str.lower() *)
RECURSIVE Lower(_)
Lower(s) == IF s = "" THEN "" ELSE LowerCh(Ch(s, 1)) \o Lower(SubSeq(s, 2, Len(s)))

(* str.strip(chars): drop leading and trailing characters that are in chars *)
RECURSIVE LStrip(_, _)
LStrip(s, chars) ==
    IF s # "" /\ InChars(Ch(s, 1), chars) THEN LStrip(SubSeq(s, 2, Len(s)), chars) ELSE s

RECURSIVE RStrip(_, _)
RStrip(s, chars) ==
    IF s # "" /\ InChars(Ch(s, Len(s)), chars)
    THEN RStrip(SubSeq(s, 1, Len(s) - 1), chars) ELSE s

Strip(s, chars) == RStrip(LStrip(s, chars), chars)

Contains(s, c) == InChars(c, s)

AllDigits(s) == s # "" /\ \A i \in 1..Len(s) : IsDigit(Ch(s, i))

RECURSIVE DigitsValue(_)
DigitsValue(s) ==
    IF s = "" THEN 0
    ELSE 10 * DigitsValue(SubSeq(s, 1, Len(s) - 1)) + (IndexIn(Ch(s, Len(s)), DigitChars) - 1)

RECURSIVE Pow10(_)
Pow10(n) == IF n = 0 THEN 1 ELSE 10 * Pow10(n - 1)

(* the text without its optional sign, and the sign *)
Unsigned(s) == IF s # "" /\ Ch(s, 1) \in {"+", "-"} THEN SubSeq(s, 2, Len(s)) ELSE s
SignOf(s) == IF s # "" /\ Ch(s, 1) = "-" THEN -1 ELSE 1

(* int(str): surrounding blanks, an optional sign, decimal digits *)
IntOfStr(s) ==
    LET t == Strip(s, " ")
        u == Unsigned(t)
    IN  IF AllDigits(u) THEN Ok(PyInt(SignOf(t) * DigitsValue(u))) ELSE Err("ValueError")

DotAt(s) == CHOOSE i \in 1..Len(s) : Ch(s, i) = "."

(* float(str): surrounding blanks, an optional sign, digits with at most   *)
(* one decimal point (exponents, inf and nan are outside the model's text) *)
FloatOfStr(s) ==
    LET t == Strip(s, " ")
        u == Unsigned(t)
    IN  IF AllDigits(u) THEN Ok(PyFloat(SignOf(t) * DigitsValue(u), 1))
        ELSE IF Contains(u, ".")
        THEN LET i == DotAt(u)
                 ip == SubSeq(u, 1, i - 1)
                 fp == SubSeq(u, i + 1, Len(u))
             IN  IF (ip = "" \/ AllDigits(ip)) /\ (fp = "" \/ AllDigits(fp))
                    /\ ~(ip = "" /\ fp = "")
                 THEN Ok(PyFloat(SignOf(t) * (DigitsValue(ip) * Pow10(Len(fp)) + DigitsValue(fp)),
                                 Pow10(Len(fp))))
                 ELSE Err("ValueError")
        ELSE Err("ValueError")

(* float(x) *)
PyFloatOf(x) ==
    CASE IsNum(x) -> Ok(PyFloat(x.n, x.d))
      [] x.k = "str" -> FloatOfStr(x.s)
      [] OTHER -> Err("TypeError")

(* int(x) for a float x truncates toward zero *)
Trunc(n, d) == IF n >= 0 THEN n \div d ELSE -((-n) \div d)

(* int(float(x)) *)
PyIntOfFloatOf(x) ==
    LET f == PyFloatOf(x)
    IN  IF f.st = "ok" THEN Ok(PyInt(Trunc(f.v.n, f.v.d))) ELSE f

(* s1 < s2 on str: lexicographic by code point *)
RECURSIVE StrLess(_, _)
StrLess(a, b) ==
    IF b = "" THEN FALSE
    ELSE IF a = "" THEN TRUE
    ELSE IF Ch(a, 1) = Ch(b, 1) THEN StrLess(SubSeq(a, 2, Len(a)), SubSeq(b, 2, Len(b)))
    ELSE IndexIn(Ch(a, 1), AsciiOrder) < IndexIn(Ch(b, 1), AsciiOrder)

RECURSIVE Repeat(_, _)
Repeat(s, n) == IF n <= 0 THEN "" ELSE s \o Repeat(s, n - 1)

----------------------------------------------------------------------------
(* Python operators on values                                              *)

NumResult(n, d, l, r) ==
    IF l.k = "float" \/ r.k = "float" THEN PyFloat(n, d) ELSE PyInt(n)

(* left + right *)
PyAdd(l, r) ==
    CASE IsNum(l) /\ IsNum(r) -> Ok(NumResult(l.n * r.d + r.n * l.d, l.d * r.d, l, r))
      [] IsStr(l) /\ IsStr(r) -> Ok(PyStr(l.s \o r.s))
      [] IsListObj(l) /\ IsListObj(r) -> Ok(PyList(l.elems \o r.elems))
      [] OTHER -> Err("TypeError")

(* left - right *)
PySub(l, r) ==
    CASE IsNum(l) /\ IsNum(r) -> Ok(NumResult(l.n * r.d - r.n * l.d, l.d * r.d, l, r))
      [] OTHER -> Err("TypeError")

(* left * right *)
PyMul(l, r) ==
    CASE IsNum(l) /\ IsNum(r) -> Ok(NumResult(l.n * r.n, l.d * r.d, l, r))
      [] IsStr(l) /\ r.k \in {"int", "bool"} -> Ok(PyStr(Repeat(l.s, r.n)))
      [] l.k \in {"int", "bool"} /\ IsStr(r) -> Ok(PyStr(Repeat(r.s, l.n)))
      [] OTHER -> Err("TypeError")

(* left / right: true division *)
PyTrueDiv(l, r) ==
    CASE IsNum(l) /\ IsNum(r) ->
            IF r.n = 0 THEN Err("ZeroDivisionError") ELSE Ok(PyFloat(l.n * r.d, l.d * r.n))
      [] OTHER -> Err("TypeError")

(* an equality that holds only between values of one type: 0.0 is not 0 *)
PyEqSameType(l, r) == l = r

(* left == right *)
PyEq(l, r) ==
    CASE IsNum(l) /\ IsNum(r) -> l.n * r.d = r.n * l.d
      [] l.k = r.k -> l = r
      [] OTHER -> FALSE

(* left < right *)
PyLt(l, r) ==
    CASE IsNum(l) /\ IsNum(r) -> Ok(PyBool(l.n * r.d < r.n * l.d))
      [] IsStr(l) /\ IsStr(r) -> Ok(PyBool(StrLess(l.s, r.s)))
      [] OTHER -> Err("TypeError")

(* left <= right *)
PyLe(l, r) ==
    CASE IsNum(l) /\ IsNum(r) -> Ok(PyBool(l.n * r.d <= r.n * l.d))
      [] IsStr(l) /\ IsStr(r) -> Ok(PyBool(l.s = r.s \/ StrLess(l.s, r.s)))
      [] OTHER -> Err("TypeError")

(* left > right and left >= right are right < left and right <= left *)
PyGt(l, r) == PyLt(r, l)
PyGe(l, r) == PyLe(r, l)

(* op == "<text>" for an operator or type field taken from a dict *)
Is(obj, text) == PyEq(obj, PyStr(text))

----------------------------------------------------------------------------
(* sql_runner.py: the row evaluator                                        *)

(* The hasattr(.., 'type') branches for Lark tokens are not modelled: the  *)
(* transformer's tokens are str instances and take the str branch.         *)
(* an evaluator that hands a node of a type it does not know back as the value *)
ReturnUnsupported(expression_node) == Ok(expression_node)

(* raise ValueError(f"Unsupported expression type for evaluation: {expr_type}") *)
UnsupportedExpression(expression_node) ==
    Raise("ValueError", "Unsupported expression type for evaluation")

RECURSIVE _evaluate_inlined_expr(_, _)
_evaluate_inlined_expr(expression_node, row_data) ==
    CASE IsStr(expression_node) ->
            Ok(IF expression_node.s \in DOMAIN row_data
               THEN row_data[expression_node.s] ELSE expression_node)
      [] IsNum(expression_node) -> Ok(expression_node)
      [] IsDictObj(expression_node) ->
            LET expr_type == DictGet(expression_node, "type", PyNone)
                e == expression_node.items
            IN  CASE Is(expr_type, "arithmetic") ->
                        LET left == _evaluate_inlined_expr(e.left, row_data)
                            right == _evaluate_inlined_expr(e.right, row_data)
                        IN  IF left.st = "err" THEN left
                            ELSE IF right.st = "err" THEN right
                            ELSE CASE Is(e.op, "+") -> PyAdd(left.v, right.v)
                                   [] Is(e.op, "-") -> PySub(left.v, right.v)
                                   [] Is(e.op, "*") -> PyMul(left.v, right.v)
                                   [] Is(e.op, "/") ->
                                        IF ~PyEq(right.v, PyInt(0))
                                        THEN PyTrueDiv(left.v, right.v) ELSE Ok(PyNone)
                                   [] OTHER -> Err("ValueError")
                  [] Is(expr_type, "comparison") ->
                        LET left == _evaluate_inlined_expr(e.left, row_data)
                            right == _evaluate_inlined_expr(e.right, row_data)
                        IN  IF left.st = "err" THEN left
                            ELSE IF right.st = "err" THEN right
                            ELSE CASE Is(e.op, ">") -> PyGt(left.v, right.v)
                                   [] Is(e.op, "<") -> PyLt(left.v, right.v)
                                   [] Is(e.op, ">=") -> PyGe(left.v, right.v)
                                   [] Is(e.op, "<=") -> PyLe(left.v, right.v)
                                   [] Is(e.op, "=") -> Ok(PyBool(PyEq(left.v, right.v)))
                                   [] Is(e.op, "!=") -> Ok(PyBool(~PyEq(left.v, right.v)))
                                   [] OTHER -> Err("ValueError")
                  [] Is(expr_type, "if_stmt") ->
                        LET condition_val == _evaluate_inlined_expr(e.condition, row_data)
                        IN  IF condition_val.st = "err" THEN condition_val
                            ELSE IF Truthy(condition_val.v)
                            THEN _evaluate_inlined_expr(e.then, row_data)
                            ELSE _evaluate_inlined_expr(e.else, row_data)
                  [] Is(expr_type, "return_stmt") -> _evaluate_inlined_expr(e.value, row_data)
                  [] Is(expr_type, "literal") -> Ok(e.value)
                  [] Is(expr_type, "inlined_expression") ->
                        _evaluate_inlined_expr(DictGet(expression_node, "expression", PyNone),
                                               row_data)
                  [] OTHER -> UnsupportedExpression(expression_node)
      [] OTHER -> Ok(expression_node)

----------------------------------------------------------------------------
(* IR/udf/manager.py: the catalog.  udfs is self.udfs: a function from the *)
(* registered names to their definitions (dict objects).                   *)

(* sys.getrecursionlimit() in frames of execute_function; a call nested    *)
(* deeper raises RecursionError                                            *)
MaxCallDepth == 3

(* a lookup by dict.get: None for a name that is not registered *)
get_function_or_none(udfs, name) ==
    IF ~IsStr(name) \/ name.s \notin DOMAIN udfs THEN Ok(PyNone) ELSE Ok(udfs[name.s])

get_function(udfs, name) ==
    IF ~IsStr(name) \/ name.s \notin DOMAIN udfs
    THEN Raise("ValueError", "not found") ELSE Ok(udfs[name.s])

(* the conversion of an argument or a result to a declared type *)
ConvertTo(type_name, value) ==
    LET ty == Lower(type_name.s)
        conv == CASE ty = "float" -> PyFloatOf(value)
                  [] ty = "int" -> PyIntOfFloatOf(value)
                  [] ty = "bool" ->
                        CASE value.k = "bool" -> Ok(value)
                          [] value.k \in {"int", "float"} -> Ok(PyBool(value.n # 0))
                          [] value.k = "str" -> Ok(PyBool(Lower(value.s) = "true"))
                          [] OTHER -> Ok(PyBool(Truthy(value)))
                  [] OTHER -> Ok(value)
    IN  IF conv.st = "err" THEN Raise("ValueError", "invalid type") ELSE conv

(* the bindings built by the loop over zip(udf["params"], args): None when *)
(* every conversion succeeded, else the error of the first that failed     *)
RECURSIVE BindError(_, _, _)
BindError(params, args, i) ==
    IF i > Len(params) \/ i > Len(args) THEN Ok(PyNone)
    ELSE LET c == ConvertTo(params[i].items.type, args[i])
         IN  IF c.st = "err" THEN c ELSE BindError(params, args, i + 1)

(* bindings[param["name"]] = arg_value: a later parameter of the same name *)
(* overwrites an earlier one                                               *)
Bindings(params, args) ==
    LET n == IF Len(params) < Len(args) THEN Len(params) ELSE Len(args)
        names == {params[i].items.name.s : i \in 1..n}
        last(nm) == CHOOSE i \in 1..n : /\ params[i].items.name.s = nm
                                        /\ \A j \in 1..n : params[j].items.name.s = nm => j <= i
    IN  [nm \in names |-> ConvertTo(params[last(nm)].items.type, args[last(nm)]).v]

(* the literal a str that names no binding stands for *)
LiteralOf(text) ==
    IF Lower(text) \in {"true", "false"} THEN PyBool(Lower(text) = "true")
    ELSE LET num == IF Contains(text, ".") THEN FloatOfStr(text) ELSE IntOfStr(text)
         IN  IF num.st = "ok" THEN num.v ELSE PyStr(text)

(* left <op> right as the if_stmt branch computes it: result stays False  *)
(* for an operator that is none of the six                                *)
IfCompare(op, left, right) ==
    CASE Is(op, ">") -> PyGt(left, right)
      [] Is(op, "<") -> PyLt(left, right)
      [] Is(op, ">=") -> PyGe(left, right)
      [] Is(op, "<=") -> PyLe(left, right)
      [] Is(op, "=") -> Ok(PyBool(PyEq(left, right)))
      [] Is(op, "!=") -> Ok(PyBool(~PyEq(left, right)))
      [] OTHER -> Ok(PyBool(FALSE))

RECURSIVE _evaluate_expression(_, _, _, _)
RECURSIVE execute_function(_, _, _, _)
RECURSIVE EvalArguments(_, _, _, _)

(* depth: the frames of execute_function still available *)
_evaluate_expression(udfs, expr, bindings, depth) ==
    CASE IsDictObj(expr) ->
            LET e == expr.items
                ty == e.type
            IN  CASE Is(ty, "if_stmt") ->
                        IF ~IsDictObj(e.condition) THEN Err("TypeError")
                        ELSE
                        LET condition == e.condition.items
                            left == _evaluate_expression(udfs, condition.left, bindings, depth)
                            right == _evaluate_expression(udfs, condition.right, bindings, depth)
                            result == IfCompare(condition.op, left.v, right.v)
                        IN  IF left.st = "err" THEN left
                            ELSE IF right.st = "err" THEN right
                            ELSE IF result.st = "err" THEN result
                            ELSE IF Truthy(result.v)
                            THEN _evaluate_expression(udfs, e.then, bindings, depth)
                            ELSE _evaluate_expression(udfs, e.else, bindings, depth)
                  [] Is(ty, "return_stmt") ->
                        _evaluate_expression(udfs, e.value, bindings, depth)
                  [] Is(ty, "comparison") ->
                        LET left == _evaluate_expression(udfs, e.left, bindings, depth)
                            right == _evaluate_expression(udfs, e.right, bindings, depth)
                        IN  IF left.st = "err" THEN left
                            ELSE IF right.st = "err" THEN right
                            ELSE CASE Is(e.op, ">") -> PyGt(left.v, right.v)
                                   [] Is(e.op, "<") -> PyLt(left.v, right.v)
                                   [] Is(e.op, ">=") -> PyGe(left.v, right.v)
                                   [] Is(e.op, "<=") -> PyLe(left.v, right.v)
                                   [] Is(e.op, "=") -> Ok(PyBool(PyEq(left.v, right.v)))
                                   [] Is(e.op, "!=") -> Ok(PyBool(~PyEq(left.v, right.v)))
                                   [] OTHER -> Raise("ValueError", "unknown operator")
                  [] Is(ty, "arithmetic") ->
                        LET left == _evaluate_expression(udfs, e.left, bindings, depth)
                            right == _evaluate_expression(udfs, e.right, bindings, depth)
                        IN  IF left.st = "err" THEN left
                            ELSE IF right.st = "err" THEN right
                            ELSE CASE Is(e.op, "+") -> PyAdd(left.v, right.v)
                                   [] Is(e.op, "-") -> PySub(left.v, right.v)
                                   [] Is(e.op, "*") -> PyMul(left.v, right.v)
                                   [] Is(e.op, "/") -> PyTrueDiv(left.v, right.v)
                                   [] OTHER -> Raise("ValueError", "unknown operator")
                  [] Is(ty, "function_call") ->
                        LET args == EvalArguments(udfs, e.arguments.elems, bindings, depth)
                        IN  IF args.st = "err" THEN args
                            ELSE execute_function(udfs, e.function_name, args.v.elems, depth)
                  [] OTHER -> Raise("ValueError", "unknown expression type")
      [] IsStr(expr) ->
            IF expr.s \in DOMAIN bindings THEN Ok(bindings[expr.s]) ELSE Ok(LiteralOf(expr.s))
      [] OTHER -> Ok(expr)

(* args.append(self._evaluate_expression(arg, bindings)) for each argument *)
EvalArguments(udfs, arguments, bindings, depth) ==
    IF arguments = <<>> THEN Ok(PyList(<<>>))
    ELSE LET first == _evaluate_expression(udfs, Head(arguments), bindings, depth)
             rest == EvalArguments(udfs, Tail(arguments), bindings, depth)
         IN  IF first.st = "err" THEN first
             ELSE IF rest.st = "err" THEN rest
             ELSE Ok(PyList(<<first.v>> \o rest.v.elems))

(* execute_function without the argument count check: zip() stops at the  *)
(* shorter of params and args                                              *)
execute_function_unchecked(udfs, name, args, depth) ==
    IF depth = 0 THEN Err("RecursionError")
    ELSE IF ~IsStr(name) \/ name.s \notin DOMAIN udfs THEN Raise("ValueError", "not found")
    ELSE LET udf == udfs[name.s].items
             params == udf.params.elems
             bound == BindError(params, args, 1)
             result == _evaluate_expression(udfs, udf.body, Bindings(params, args), depth - 1)
         IN  IF bound.st = "err" THEN bound
             ELSE IF result.st = "err" THEN result
             ELSE ConvertTo(udf.return_type, result.v)

execute_function(udfs, name, args, depth) ==
    IF depth = 0 THEN Err("RecursionError")
    ELSE IF ~IsStr(name) \/ name.s \notin DOMAIN udfs THEN Raise("ValueError", "not found")
    ELSE LET udf == udfs[name.s].items
             params == udf.params.elems
         IN  IF Len(args) # Len(params) THEN Raise("ValueError", "argument count")
             ELSE LET bound == BindError(params, args, 1)
                      result == _evaluate_expression(udfs, udf.body, Bindings(params, args),
                                                     depth - 1)
                  IN  IF bound.st = "err" THEN bound
                      ELSE IF result.st = "err" THEN result
                      ELSE ConvertTo(udf.return_type, result.v)

----------------------------------------------------------------------------
(* IR/intermediateRepresentation.py: the inliner                           *)

(* the for loop over enumerate(params) on a str body: the first parameter  *)
(* whose name equals the body decides; args[i] raises IndexError when the  *)
(* call has fewer arguments                                                *)
(* a loop that goes on to the later parameters with the argument it has    *)
(* just substituted                                                        *)
RECURSIVE ReplaceLeafAgain(_, _, _, _)
ReplaceLeafAgain(body, params, args, i) ==
    IF i > Len(params) THEN Ok(body)
    ELSE IF PyEq(body, params[i].items.name)
    THEN IF i > Len(args) THEN Err("IndexError")
         ELSE IF IsStr(args[i])
         THEN ReplaceLeafAgain(PyStr(Strip(args[i].s, "'\"")), params, args, i + 1)
         ELSE Ok(args[i])
    ELSE ReplaceLeafAgain(body, params, args, i + 1)

RECURSIVE ReplaceLeaf(_, _, _, _)
ReplaceLeaf(body, params, args, i) ==
    IF i > Len(params) THEN Ok(body)
    ELSE IF PyEq(body, params[i].items.name)
    THEN IF i > Len(args) THEN Err("IndexError")
         ELSE IF IsStr(args[i]) THEN Ok(PyStr(Strip(args[i].s, "'\"")))
         ELSE Ok(args[i])
    ELSE ReplaceLeaf(body, params, args, i + 1)

RECURSIVE _replace_params(_, _, _)
_replace_params(body, params, args) ==
    CASE IsStr(body) -> ReplaceLeaf(body, params, args, 1)
      [] IsDictObj(body) ->
            LET new_body == [key \in DOMAIN body.items |->
                                _replace_params(body.items[key], params, args)]
            IN  IF \E key \in DOMAIN new_body : new_body[key].st = "err"
                THEN Err("IndexError")
                ELSE Ok(PyDict([key \in DOMAIN new_body |-> new_body[key].v]))
      [] IsListObj(body) ->
            LET items == [i \in 1..Len(body.elems) |-> _replace_params(body.elems[i], params, args)]
            IN  IF \E i \in 1..Len(items) : items[i].st = "err"
                THEN Err("IndexError")
                ELSE Ok(PyList([i \in 1..Len(items) |-> items[i].v]))
      [] OTHER -> Ok(body)

(* the first exception raised among the outcomes of a sequence of calls *)
FirstError(outs) ==
    outs[CHOOSE i \in 1..Len(outs) : outs[i].st = "err" /\ \A j \in 1..(i - 1) : outs[j].st = "ok"]

(* the keys of a dict put in a sequence, the order the loop visits them in *)
RECURSIVE KeySeq(_)
KeySeq(keys) ==
    IF keys = {} THEN <<>>
    ELSE LET key == CHOOSE key \in keys : TRUE IN <<key>> \o KeySeq(keys \ {key})

RECURSIVE inline_udf_in_ir(_, _)
inline_udf_in_ir(ir, udfs) ==
    CASE IsDictObj(ir) ->
            IF Is(DictGet(ir, "type", PyNone), "function_call")
            THEN LET function_name == DictGet(ir, "function_name", PyNone)
                     arguments == DictGet(ir, "arguments", PyList(<<>>))
                     udf_def == get_function(udfs, function_name)
                     inlined_body == _replace_params(udf_def.v.items.body,
                                                     udf_def.v.items.params.elems,
                                                     arguments.elems)
                 IN  IF udf_def.st = "err" THEN udf_def
                     ELSE IF inlined_body.st = "err" THEN inlined_body
                     ELSE Ok(PyDict([type |-> PyStr("inlined_expression"),
                                     original_function_call |->
                                         PyDict([function_name |-> function_name,
                                                 arguments |-> arguments]),
                                     expression |-> inlined_body.v]))
            ELSE LET keys == KeySeq(DOMAIN ir.items)
                     outs == [i \in 1..Len(keys) |-> inline_udf_in_ir(ir.items[keys[i]], udfs)]
                 IN  IF \E i \in 1..Len(outs) : outs[i].st = "err"
                     THEN FirstError(outs)
                     ELSE Ok(PyDict([key \in DOMAIN ir.items |->
                                        inline_udf_in_ir(ir.items[key], udfs).v]))
      [] IsListObj(ir) ->
            LET outs == [i \in 1..Len(ir.elems) |-> inline_udf_in_ir(ir.elems[i], udfs)]
            IN  IF \E i \in 1..Len(outs) : outs[i].st = "err"
                THEN FirstError(outs)
                ELSE Ok(PyList([i \in 1..Len(outs) |-> outs[i].v]))
      [] OTHER -> Ok(ir)

----------------------------------------------------------------------------
(* json.dump / json.load of a definition: the file text is a sequence of   *)
(* tokens [tok, v]                                                         *)

Tok(t, v) == [tok |-> t, v |-> v]

RECURSIVE JsonDump(_)
RECURSIVE JsonDumpItems(_, _)
RECURSIVE JsonDumpElems(_)

JsonDump(obj) ==
    CASE IsDictObj(obj) ->
            <<Tok("{", PyNone)>> \o JsonDumpItems(obj.items, KeySeq(DOMAIN obj.items))
                                 \o <<Tok("}", PyNone)>>
      [] IsListObj(obj) ->
            <<Tok("[", PyNone)>> \o JsonDumpElems(obj.elems) \o <<Tok("]", PyNone)>>
      [] OTHER -> <<Tok("scalar", obj)>>

JsonDumpItems(items, keys) ==
    IF keys = <<>> THEN <<>>
    ELSE <<Tok("key", PyStr(Head(keys)))>> \o JsonDump(items[Head(keys)])
         \o JsonDumpItems(items, Tail(keys))

JsonDumpElems(elems) ==
    IF elems = <<>> THEN <<>> ELSE JsonDump(Head(elems)) \o JsonDumpElems(Tail(elems))

(* the parsers return [ok, v, next]: the object read and the index of the  *)
(* first token after it; ok is FALSE for text that is not a JSON document  *)
Parsed(v, next) == [ok |-> TRUE, v |-> v, next |-> next]
NotJson == [ok |-> FALSE, v |-> PyNone, next |-> 0]

RECURSIVE JsonParse(_, _)
RECURSIVE JsonParseItems(_, _, _)
RECURSIVE JsonParseElems(_, _, _)

JsonParse(text, i) ==
    IF i > Len(text) THEN NotJson
    ELSE CASE text[i].tok = "scalar" -> Parsed(text[i].v, i + 1)
           [] text[i].tok = "{" -> JsonParseItems(text, i + 1, <<>>)
           [] text[i].tok = "[" -> JsonParseElems(text, i + 1, <<>>)
           [] OTHER -> NotJson

JsonParseItems(text, i, items) ==
    IF i > Len(text) THEN NotJson
    ELSE IF text[i].tok = "}" THEN Parsed(PyDict(items), i + 1)
    ELSE IF text[i].tok # "key" THEN NotJson
    ELSE LET value == JsonParse(text, i + 1)
         IN  IF ~value.ok THEN NotJson
             ELSE JsonParseItems(text, value.next,
                                 (text[i].v.s :> value.v) @@ items)

JsonParseElems(text, i, elems) ==
    IF i > Len(text) THEN NotJson
    ELSE IF text[i].tok = "]" THEN Parsed(PyList(elems), i + 1)
    ELSE LET value == JsonParse(text, i)
         IN  IF ~value.ok THEN NotJson
             ELSE JsonParseElems(text, value.next, Append(elems, value.v))

JsonLoad(text) ==
    LET value == JsonParse(text, 1)
    IN  IF value.ok /\ value.next = Len(text) + 1 THEN Ok(value.v) ELSE Err("JSONDecodeError")

----------------------------------------------------------------------------
(* IR/udf/parser.py: the parser of CREATE FUNCTION definition text.  The   *)
(* regular expressions are modelled by what they match, with IGNORECASE;   *)
(* the only white space of the model's text is the blank.                  *)

valid_types == {"int", "float", "bool"}

(* \s* from index i: the index of the first character that is no blank *)
RECURSIVE SkipSpaces(_, _)
SkipSpaces(s, i) == IF i <= Len(s) /\ IsSpace(Ch(s, i)) THEN SkipSpaces(s, i + 1) ELSE i

(* \w* from index i: the index of the first character that is no word character *)
RECURSIVE WordEnd(_, _)
WordEnd(s, i) == IF i <= Len(s) /\ IsWordChar(Ch(s, i)) THEN WordEnd(s, i + 1) ELSE i

(* the keyword kw at index i, in any case *)
HasAt(s, i, kw) ==
    /\ i >= 1
    /\ i + Len(kw) - 1 <= Len(s)
    /\ Lower(SubSeq(s, i, i + Len(kw) - 1)) = Lower(kw)

(* the least index in from..Len(s)+1 that satisfies P, or 0 *)
First(s, from, P(_)) ==
    LET hits == {e \in from..(Len(s) + 1) : P(e)}
    IN  IF hits = {} THEN 0 ELSE CHOOSE e \in hits : \A h \in hits : e <= h

(* str.strip() *)
StripBlanks(s) == Strip(s, " ")

(* str.split(sep) *)
RECURSIVE Split(_, _)
Split(s, sep) ==
    LET at == First(s, 1, LAMBDA e : e <= Len(s) /\ Ch(s, e) = sep)
    IN  IF at = 0 THEN <<s>>
        ELSE <<SubSeq(s, 1, at - 1)>> \o Split(SubSeq(s, at + 1, Len(s)), sep)

(* str.split(): the maximal runs of characters that are no blanks *)
RECURSIVE SplitBlanks(_)
SplitBlanks(s) ==
    LET from == SkipSpaces(s, 1)
        to == First(s, from, LAMBDA e : e > Len(s) \/ IsSpace(Ch(s, e)))
    IN  IF from > Len(s) THEN <<>>
        ELSE <<SubSeq(s, from, to - 1)>> \o SplitBlanks(SubSeq(s, to, Len(s)))

(* \s*RETURNS\s+(\w+) at index i *)
ReturnsAt(s, i) ==
    LET r == SkipSpaces(s, i)
        w == SkipSpaces(s, r + 7)
    IN  HasAt(s, r, "RETURNS") /\ w > r + 7 /\ WordEnd(s, w) > w

(* \s*CREATE\s+FUNCTION\s+(\w+)\s*\((.*?)\)\s*RETURNS\s+(\w+) from the     *)
(* start of s: [ok, name, args_str, return_type]                           *)
SignatureMatch(s) ==
    LET c == SkipSpaces(s, 1)
        f == SkipSpaces(s, c + 6)
        n == SkipSpaces(s, f + 8)
        ne == WordEnd(s, n)
        open == SkipSpaces(s, ne)
        close == First(s, open + 1, LAMBDA e : e <= Len(s) /\ Ch(s, e) = ")" /\ ReturnsAt(s, e + 1))
        w == SkipSpaces(s, SkipSpaces(s, close + 1) + 7)
    IN  IF /\ HasAt(s, c, "CREATE") /\ f > c + 6
           /\ HasAt(s, f, "FUNCTION") /\ n > f + 8
           /\ ne > n
           /\ open <= Len(s) /\ Ch(s, open) = "("
           /\ close # 0
        THEN [ok |-> TRUE, name |-> SubSeq(s, n, ne - 1),
              args_str |-> SubSeq(s, open + 1, close - 1),
              return_type |-> SubSeq(s, w, WordEnd(s, w) - 1)]
        ELSE [ok |-> FALSE, name |-> "", args_str |-> "", return_type |-> ""]

(* \s*(\w+)\s+(\w+)\s* from the start of one argument: [ok, name, type] *)
ArgumentMatch(arg) ==
    LET n == SkipSpaces(arg, 1)
        ne == WordEnd(arg, n)
        t == SkipSpaces(arg, ne)
        te == WordEnd(arg, t)
    IN  IF ne > n /\ t > ne /\ te > t
        THEN [ok |-> TRUE, name |-> SubSeq(arg, n, ne - 1), type |-> SubSeq(arg, t, te - 1)]
        ELSE [ok |-> FALSE, name |-> "", type |-> ""]

(* the loop of _parse_arguments over the pieces of args_str.split(',') *)
RECURSIVE ParseArgumentList(_)
ParseArgumentList(pieces) ==
    IF pieces = <<>> THEN Ok(PyList(<<>>))
    ELSE LET arg == StripBlanks(Head(pieces))
             parts == ArgumentMatch(arg)
             rest == ParseArgumentList(Tail(pieces))
         IN  IF arg = "" THEN rest
             ELSE IF ~parts.ok THEN Raise("ValueError", "invalid argument format")
             ELSE IF Lower(parts.type) \notin valid_types
             THEN Raise("ValueError", "invalid argument type")
             ELSE IF rest.st = "err" THEN rest
             ELSE Ok(PyList(<<PyDict([name |-> PyStr(parts.name),
                                      type |-> PyStr(Lower(parts.type))])>>
                            \o rest.v.elems))

_parse_arguments(args_str) ==
    IF StripBlanks(args_str) = "" THEN Ok(PyList(<<>>))
    ELSE ParseArgumentList(Split(args_str, ","))

(* \s*<kw>\s*; at index i, kw being END *)
EndAt(s, i) ==
    LET a == SkipSpaces(s, i)
        b == SkipSpaces(s, a + 3)
    IN  HasAt(s, a, "END") /\ b <= Len(s) /\ Ch(s, b) = ";"

(* BEGIN\s*(.*?)\s*END\s*; searched in s: [ok, body] *)
BodyMatch(s) ==
    LET begin == First(s, 1, LAMBDA p : HasAt(s, p, "BEGIN")
                                        /\ \E e \in SkipSpaces(s, p + 5)..(Len(s) + 1) : EndAt(s, e))
        from == SkipSpaces(s, begin + 5)
        to == First(s, from, LAMBDA e : EndAt(s, e))
    IN  IF begin = 0 THEN [ok |-> FALSE, body |-> ""]
        ELSE [ok |-> TRUE, body |-> SubSeq(s, from, to - 1)]

(* \s*; at index i *)
SemicolonAt(s, i) == LET a == SkipSpaces(s, i) IN a <= Len(s) /\ Ch(s, a) = ";"

(* RETURN\s+(.*?)\s*; from the start of s: [ok, value] *)
ReturnMatch(s) ==
    LET from == SkipSpaces(s, 7)
        to == First(s, from, LAMBDA e : SemicolonAt(s, e))
    IN  IF HasAt(s, 1, "RETURN") /\ from > 7 /\ to # 0
        THEN [ok |-> TRUE, value |-> SubSeq(s, from, to - 1)]
        ELSE [ok |-> FALSE, value |-> ""]

(* \s*END\s*IF\s*; at index i *)
EndIfAt(s, i) ==
    LET a == SkipSpaces(s, i)
        b == SkipSpaces(s, a + 3)
        c == SkipSpaces(s, b + 2)
    IN  HasAt(s, a, "END") /\ HasAt(s, b, "IF") /\ c <= Len(s) /\ Ch(s, c) = ";"

(* \s*ELSE\s*(.*?)\s*END\s*IF\s*; at index i *)
ElseAt(s, i) ==
    LET a == SkipSpaces(s, i)
    IN  HasAt(s, a, "ELSE") /\ \E e \in SkipSpaces(s, a + 4)..(Len(s) + 1) : EndIfAt(s, e)

(* \s+THEN\s*(.*?)\s*ELSE ... at index i *)
ThenAt(s, i) ==
    LET a == SkipSpaces(s, i)
    IN  a > i /\ HasAt(s, a, "THEN") /\ \E e \in SkipSpaces(s, a + 4)..(Len(s) + 1) : ElseAt(s, e)

(* \s*IF\s+(.*?)\s+THEN\s*(.*?)\s*ELSE\s*(.*?)\s*END\s*IF\s*; from the     *)
(* start of s: [ok, condition, then_body, else_body]                       *)
IfMatch(s) ==
    LET i == SkipSpaces(s, 1)
        c == SkipSpaces(s, i + 2)
        ce == First(s, c, LAMBDA e : ThenAt(s, e))
        t == SkipSpaces(s, SkipSpaces(s, ce) + 4)
        te == First(s, t, LAMBDA e : ElseAt(s, e))
        l == SkipSpaces(s, SkipSpaces(s, te) + 4)
        le == First(s, l, LAMBDA e : EndIfAt(s, e))
    IN  IF HasAt(s, i, "IF") /\ c > i + 2 /\ ce # 0
        THEN [ok |-> TRUE, condition |-> SubSeq(s, c, ce - 1),
              then_body |-> SubSeq(s, t, te - 1), else_body |-> SubSeq(s, l, le - 1)]
        ELSE [ok |-> FALSE, condition |-> "", then_body |-> "", else_body |-> ""]

(* the structured body of the definition text's body *)
ParseBodyText(body) ==
    LET if_match == IfMatch(body)
        then_return == ReturnMatch(StripBlanks(if_match.then_body))
        else_return == ReturnMatch(StripBlanks(if_match.else_body))
        condition_parts == SplitBlanks(StripBlanks(if_match.condition))
        return_match == ReturnMatch(body)
    IN  IF if_match.ok
        THEN IF ~then_return.ok \/ ~else_return.ok
             THEN Raise("ValueError", "both blocks must contain RETURN")
             ELSE IF Len(condition_parts) # 3
             THEN Raise("ValueError", "invalid condition format")
             ELSE Ok(PyDict([type |-> PyStr("if_stmt"),
                             condition |-> PyDict([type |-> PyStr("comparison"),
                                                   left |-> PyStr(condition_parts[1]),
                                                   op |-> PyStr(condition_parts[2]),
                                                   right |-> PyStr(condition_parts[3])]),
                             then |-> PyDict([type |-> PyStr("return_stmt"),
                                              value |-> PyStr(StripBlanks(then_return.value))]),
                             else |-> PyDict([type |-> PyStr("return_stmt"),
                                              value |-> PyStr(StripBlanks(else_return.value))])]))
        ELSE IF ~return_match.ok THEN Raise("ValueError", "must contain a RETURN statement")
        ELSE Ok(PyDict([type |-> PyStr("return_stmt"),
                        value |-> PyStr(StripBlanks(return_match.value))]))

ParseDefinitionText(udf_text) ==
    LET text == StripBlanks(udf_text)
        signature_match == SignatureMatch(text)
        return_type == Lower(signature_match.return_type)
        params == _parse_arguments(signature_match.args_str)
        body_match == BodyMatch(text)
        body == ParseBodyText(StripBlanks(body_match.body))
    IN  IF ~signature_match.ok THEN Raise("ValueError", "invalid syntax")
        ELSE IF return_type \notin valid_types THEN Raise("ValueError", "invalid return type")
        ELSE IF params.st = "err" THEN params
        ELSE IF ~body_match.ok THEN Raise("ValueError", "function body not found")
        ELSE IF body.st = "err" THEN body
        ELSE Ok(PyDict([name |-> PyStr(signature_match.name),
                        params |-> params.v,
                        return_type |-> PyStr(return_type),
                        body |-> body.v]))

(* the definition texts the model registers *)
IsAdultText ==
    "CREATE FUNCTION is_adult(age int) RETURNS bool BEGIN IF age >= 18 THEN RETURN true; ELSE RETURN false; END IF; END;"
BadParamText == "CREATE FUNCTION invalid(x string) RETURNS int BEGIN RETURN x; END;"
BadReturnText == "CREATE FUNCTION invalid(x int) RETURNS text BEGIN RETURN x; END;"

DefinitionTexts == {IsAdultText, BadParamText, BadReturnText}

(* definition texts whose body returns an arithmetic expression of the     *)
(* parameters (tests/test_udf_execution.py)                                *)
AddIntsText == "CREATE FUNCTION add_ints(a int, b int) RETURNS int BEGIN RETURN a + b; END;"
AreaText == "CREATE FUNCTION area(w float, h float) RETURNS float BEGIN RETURN w * h; END;"

ArithmeticTexts == {AddIntsText, AreaText}

VARIABLE
    parser       \* self.parser: definition text -> what parse_function_definition gives

(* parse_function_definition is a pure function of the text: the model    *)
(* holds its graph over the texts it registers, computed from               *)
(* ParseDefinitionText in the initial state                                 *)
ParsedTexts ==
    [udf_text \in DefinitionTexts \cup ArithmeticTexts |-> ParseDefinitionText(udf_text)]

parse_function_definition(udf_text) == parser[udf_text]

----------------------------------------------------------------------------
(* IR/udf/manager.py: registration, removal and loading.  A manager is     *)
(* [udfs, functions, disk]: self.udfs, the names of self.functions and the *)
(* files of self.data_dir (file name -> text).                             *)

NoUdfs == [nm \in {} |-> PyNone]

Manager(udfs, functions, disk) == [udfs |-> udfs, functions |-> functions, disk |-> disk]

(* f with key mapped to value *)
Put(f, key, value) == [kk \in DOMAIN f \cup {key} |-> IF kk = key THEN value ELSE f[kk]]

(* f without key *)
Del(f, key) == [kk \in DOMAIN f \ {key} |-> f[kk]]

(* os.path.join(self.data_dir, f"{name}.json"), relative to data_dir *)
FilePath(name) == name \o ".json"

(* filename.endswith('.json') *)
IsJsonFile(filename) ==
    Len(filename) >= 5 /\ SubSeq(filename, Len(filename) - 4, Len(filename)) = ".json"

(* a register_function that keeps the definition a name already has *)
register_function_keep_first(m, udf_def, persist) ==
    LET parsed == IF HasKey(udf_def, "definition")
                  THEN parse_function_definition(udf_def.items.definition.s)
                  ELSE Ok(udf_def)
        name == parsed.v.items.name.s
        udfs == IF name \in DOMAIN m.udfs THEN m.udfs ELSE Put(m.udfs, name, parsed.v)
    IN  IF parsed.st = "err" THEN [m |-> m, out |-> parsed]
        ELSE [m |-> Manager(udfs,
                            m.functions \cup {name},
                            IF persist THEN Put(m.disk, FilePath(name), JsonDump(udfs[name]))
                            ELSE m.disk),
              out |-> Ok(PyStr(name))]

(* register_function: [m, out], the manager after the call and the name    *)
(* returned or the exception raised                                         *)
register_function(m, udf_def, persist) ==
    LET parsed == IF HasKey(udf_def, "definition")
                  THEN parse_function_definition(udf_def.items.definition.s)
                  ELSE Ok(udf_def)
        name == parsed.v.items.name.s
        udfs == Put(m.udfs, name, parsed.v)
    IN  IF parsed.st = "err" THEN [m |-> m, out |-> parsed]
        ELSE [m |-> Manager(udfs,
                            m.functions \cup {name},
                            IF persist THEN Put(m.disk, FilePath(name), JsonDump(udfs[name]))
                            ELSE m.disk),
              out |-> Ok(PyStr(name))]

(* a remove_function that forgets the file *)
remove_function_keep_file(m, name) ==
    IF name \in m.functions
    THEN Manager(Del(m.udfs, name), m.functions \ {name}, m.disk)
    ELSE m

(* remove_function: the manager after the call (the call returns None) *)
remove_function(m, name) ==
    IF name \in m.functions
    THEN Manager(Del(m.udfs, name), m.functions \ {name},
                 IF FilePath(name) \in DOMAIN m.disk THEN Del(m.disk, FilePath(name)) ELSE m.disk)
    ELSE m

(* the loop of _load_saved_udfs over os.listdir: a file that does not load *)
(* or does not register is skipped with a warning                          *)
RECURSIVE LoadFiles(_, _)
LoadFiles(m, filenames) ==
    IF filenames = <<>> THEN m
    ELSE LET filename == Head(filenames)
             udf_def == JsonLoad(m.disk[filename])
         IN  IF IsJsonFile(filename) /\ udf_def.st = "ok"
             THEN LoadFiles(register_function(m, udf_def.v, FALSE).m, Tail(filenames))
             ELSE LoadFiles(m, Tail(filenames))

(* UDFManager(data_dir) over the files of disk *)
_load_saved_udfs(disk) == LoadFiles(Manager(NoUdfs, {}, disk), KeySeq(DOMAIN disk))

----------------------------------------------------------------------------
(* The statements and definitions the model runs: the shapes the Lark      *)
(* transformer (parser/lark_parser.py) and generate_ir produce.            *)

Name(text) == PyStr(text)

Param(name, type) == PyDict([name |-> PyStr(name), type |-> PyStr(type)])

FunctionCall(name, args) ==
    PyDict([type |-> PyStr("function_call"), function_name |-> PyStr(name),
            arguments |-> PyList(args)])

Arithmetic(left, op, right) ==
    PyDict([type |-> PyStr("arithmetic"), left |-> left, op |-> PyStr(op), right |-> right])

Comparison(left, op, right) ==
    PyDict([type |-> PyStr("comparison"), left |-> left, op |-> PyStr(op), right |-> right])

IfStmt(condition, then_stmt, else_stmt) ==
    PyDict([type |-> PyStr("if_stmt"), condition |-> condition,
            then |-> then_stmt, else |-> else_stmt])

ReturnStmt(value) == PyDict([type |-> PyStr("return_stmt"), value |-> value])

(* the function_def dict execute_statement builds from a create_function IR *)
FunctionDef(name, params, return_type, body) ==
    PyDict([name |-> PyStr(name), params |-> PyList(params),
            return_type |-> PyStr(return_type), body |-> body])

(* {"definition": text}, the form run_sql_file registers *)
DefinitionText(text) == PyDict([definition |-> PyStr(text)])

(* the IR of a select *)
SelectIR(table, columns, where) ==
    PyDict([type |-> PyStr("select"), table |-> PyStr(table),
            columns |-> PyList(columns), where |-> where])

NoWhere == PyList(<<>>)

(* CREATE FUNCTION statements, as the grammar accepts them *)
DoubleDef == FunctionDef("double", <<Param("x", "INT")>>, "INT",
                         ReturnStmt(Arithmetic(Name("x"), "*", PyInt(2))))
DoubleDefNew == FunctionDef("double", <<Param("x", "INT")>>, "INT",
                            ReturnStmt(Arithmetic(Name("x"), "+", PyInt(1))))
DivDef == FunctionDef("div", <<Param("a", "INT"), Param("b", "INT")>>, "INT",
                      ReturnStmt(Arithmetic(Name("a"), "/", Name("b"))))
TwiceDef == FunctionDef("twice", <<Param("x", "INT")>>, "INT",
                        ReturnStmt(FunctionCall("double", <<Name("x")>>)))
IsAdultDef == FunctionDef("is_adult", <<Param("age", "INT")>>, "BOOL",
                          IfStmt(Comparison(Name("age"), ">=", PyInt(18)),
                                 ReturnStmt(Name("true")), ReturnStmt(Name("false"))))
LabelDef == FunctionDef("label", <<Param("s", "TEXT")>>, "TEXT", ReturnStmt(Name("s")))

Definitions == {DoubleDef, DoubleDefNew, DivDef, TwiceDef, IsAdultDef, LabelDef}
                   \cup {DefinitionText(udf_text) : udf_text \in DefinitionTexts}

FunctionNames == {"double", "div", "twice", "is_adult", "label", "nosuch"}

ArgumentLists == {<<>>, <<PyInt(20)>>, <<PyInt(4), PyInt(0)>>, <<PyStr("abc")>>}

Queries == {
    SelectIR("t", <<FunctionCall("double", <<Name("x")>>)>>, NoWhere),
    SelectIR("t", <<FunctionCall("div", <<Name("a"), Name("b")>>)>>, NoWhere),
    SelectIR("t", <<FunctionCall("double", <<FunctionCall("double", <<Name("x")>>)>>)>>, NoWhere),
    SelectIR("t", <<FunctionCall("twice", <<Name("x")>>)>>, NoWhere),
    SelectIR("t", <<Name("x")>>, FunctionCall("is_adult", <<Name("age")>>)),
    SelectIR("t", <<FunctionCall("nosuch", <<Name("x")>>)>>, NoWhere),
    SelectIR("t", <<FunctionCall("double", <<FunctionCall("nosuch", <<Name("x")>>)>>)>>, NoWhere),
    SelectIR("t", <<FunctionCall("div", <<Name("a")>>)>>, NoWhere),
    SelectIR("t", <<Name("a")>>, Comparison(Name("a"), ">", PyInt(1)))}

(* rows of table t *)
Rows == {[x |-> PyInt(5), a |-> PyInt(4), b |-> PyInt(0), age |-> PyInt(20)],
         [x |-> PyInt(3), a |-> PyInt(3), b |-> PyInt(2), age |-> PyInt(10)]}

----------------------------------------------------------------------------
(* The catalog as a state machine                                          *)

VARIABLES
    udfs,        \* self.udfs of the manager in use
    functions,   \* the names of self.functions
    disk,        \* the files of data_dir
    registered,  \* history: name -> the definition last registered and not removed since
    tables,      \* self.tables of the TableManager in use
    base_path,   \* the directory data of JSONTable: table name -> what <name>.json holds
    storage_dir, \* the directory of UDFStorage: file name -> what the file holds
    result       \* the last call: [op, arg, args, out, prior]

vars == <<udfs, functions, disk, parser, registered, tables, base_path, storage_dir, result>>

(* prior: the definition a register or remove call found under the name    *)
(* (None if there was none)                                                *)
Call(op, arg, args, out, prior) ==
    [op |-> op, arg |-> arg, args |-> args, out |-> out, prior |-> prior]

Init ==
    /\ udfs = NoUdfs
    /\ functions = {}
    /\ disk = [fl \in {} |-> <<>>]
    /\ parser = ParsedTexts
    /\ registered = NoUdfs
    /\ tables = [nm \in {} |-> PyNone]
    /\ base_path = [nm \in {} |-> PyNone]
    /\ storage_dir = [fl \in {} |-> PyNone]
    /\ result = Call("init", PyNone, <<>>, Ok(PyNone), PyNone)

(* the definition a register call stores: the parse of a definition text,  *)
(* or the structured definition itself                                     *)
StoredForm(udf_def) ==
    IF HasKey(udf_def, "definition")
    THEN parse_function_definition(udf_def.items.definition.s)
    ELSE Ok(udf_def)

(* udf_manager.register_function(udf_def) *)
Register(udf_def) ==
    LET r == register_function(Manager(udfs, functions, disk), udf_def, TRUE)
        name == r.out.v.s
    IN  /\ udfs' = r.m.udfs
        /\ functions' = r.m.functions
        /\ disk' = r.m.disk
        /\ registered' = IF r.out.st = "ok"
                         THEN Put(registered, name, StoredForm(udf_def).v) ELSE registered
        /\ UNCHANGED <<parser, tables, base_path, storage_dir>>
        /\ result' = Call("register", udf_def, <<>>, r.out,
                          IF r.out.st = "ok" /\ name \in DOMAIN udfs THEN udfs[name] ELSE PyNone)

(* udf_manager.remove_function(name) *)
Remove(name) ==
    LET m == remove_function(Manager(udfs, functions, disk), name)
    IN  /\ udfs' = m.udfs
        /\ functions' = m.functions
        /\ disk' = m.disk
        /\ registered' = Del(registered, name)
        /\ UNCHANGED <<parser, tables, base_path, storage_dir>>
        /\ result' = Call("remove", PyStr(name), <<>>, Ok(PyNone),
                          IF name \in DOMAIN udfs THEN udfs[name] ELSE PyNone)

(* udf_manager.get_function(name) *)
Lookup(name) ==
    /\ result' = Call("lookup", PyStr(name), <<>>, get_function(udfs, PyStr(name)), PyNone)
    /\ UNCHANGED <<udfs, functions, disk, parser, registered, tables, base_path, storage_dir>>

(* udf_manager.execute_function(name, args) *)
Execute(name, args) ==
    /\ result' = Call("execute", PyStr(name), args,
                      execute_function(udfs, PyStr(name), args, MaxCallDepth), PyNone)
    /\ UNCHANGED <<udfs, functions, disk, parser, registered, tables, base_path, storage_dir>>

(* the columns of an inlined IR with the substituted bodies, by the name   *)
(* of the function each column called                                      *)
InlinedBodies(ir, out) ==
    LET cols == IF out.st = "ok" THEN out.v.items.columns.elems ELSE <<>>
        hit(nm) == {i \in 1..Len(cols) :
                        /\ IsDictObj(cols[i])
                        /\ Is(DictGet(cols[i], "type", PyNone), "inlined_expression")
                        /\ Is(cols[i].items.original_function_call.items.function_name, nm)}
    IN  [nm \in {nm \in DOMAIN udfs : hit(nm) # {}} |->
            cols[CHOOSE i \in hit(nm) : TRUE].items.expression]

(* an inliner that substitutes into the catalog's body object in place *)
InlineInPlace(ir) ==
    LET out == inline_udf_in_ir(ir, udfs)
        bodies == InlinedBodies(ir, out)
    IN  /\ result' = Call("inline", ir, <<>>, out, PyNone)
        /\ udfs' = [nm \in DOMAIN udfs |->
                        IF nm \in DOMAIN bodies
                        THEN PyDict(Put(udfs[nm].items, "body", bodies[nm])) ELSE udfs[nm]]
        /\ UNCHANGED <<functions, disk, parser, registered, tables, base_path, storage_dir>>

(* ir = inline_udf_in_ir(ir, udf_manager) in execute_sql_command: the call *)
(* builds new dicts and lists and assigns to no object it was given        *)
Inline(ir) ==
    /\ result' = Call("inline", ir, <<>>, inline_udf_in_ir(ir, udfs), PyNone)
    /\ UNCHANGED <<udfs, functions, disk, parser, registered, tables, base_path, storage_dir>>

(* a new UDFManager over the same data_dir replaces the one in use *)
Reload ==
    LET m == _load_saved_udfs(disk)
    IN  /\ udfs' = m.udfs
        /\ functions' = m.functions
        /\ disk' = m.disk
        /\ result' = Call("reload", PyNone, <<>>, Ok(PyNone), PyNone)
        /\ UNCHANGED <<parser, registered, tables, base_path, storage_dir>>

Next ==
    \/ \E udf_def \in Definitions : Register(udf_def)
    \/ \E name \in FunctionNames : Remove(name)
    \/ \E name \in FunctionNames : Lookup(name)
    \/ \E name \in FunctionNames, args \in ArgumentLists : Execute(name, args)
    \/ \E ir \in Queries : Inline(ir)
    \/ Reload

Spec == Init /\ [][Next]_vars

(* the catalog filled from definition texts only *)
TextDefinitions == {DefinitionText(udf_text) : udf_text \in ArithmeticTexts \cup {IsAdultText}}
TextFunctionNames == {"add_ints", "area", "is_adult"}
TextArgumentLists == {<<PyInt(5), PyInt(3)>>, <<PyInt(0), PyInt(0)>>, <<PyInt(-1), PyInt(1)>>,
                      <<PyInt(20)>>}

NextText ==
    \/ \E udf_def \in TextDefinitions : Register(udf_def)
    \/ \E name \in TextFunctionNames : Remove(name)
    \/ \E name \in TextFunctionNames, args \in TextArgumentLists : Execute(name, args)
    \/ Reload

SpecText == Init /\ [][NextText]_vars

----------------------------------------------------------------------------
(* Properties                                                              *)

(* the function_call nodes among the columns and the where clause of a     *)
(* statement whose arguments are all scalars                               *)
IsCallNode(node) == IsDictObj(node) /\ Is(DictGet(node, "type", PyNone), "function_call")

TopLevelCalls(ir) ==
    {c \in {ir.items.columns.elems[i] : i \in 1..Len(ir.items.columns.elems)}
             \cup {ir.items.where} :
        /\ IsCallNode(c)
        /\ \A i \in 1..Len(c.items.arguments.elems) :
              ~IsDictObj(c.items.arguments.elems[i]) /\ ~IsListObj(c.items.arguments.elems[i])}

(* the value an argument of a call takes from a row *)
ArgumentValue(arg, row) == IF IsStr(arg) /\ arg.s \in DOMAIN row THEN row[arg.s] ELSE arg

SameOutcome(a, b) ==
    \/ a.st = "err" /\ b.st = "err"
    \/ a.st = "ok" /\ b.st = "ok" /\ PyEq(a.v, b.v)

InlinedOutcome(call, row) ==
    LET inlined == inline_udf_in_ir(call, udfs)
    IN  IF inlined.st = "err" THEN inlined ELSE _evaluate_inlined_expr(inlined.v, row)

DirectOutcome(call, row) ==
    execute_function(udfs, call.items.function_name,
                     [i \in 1..Len(call.items.arguments.elems) |->
                         ArgumentValue(call.items.arguments.elems[i], row)],
                     MaxCallDepth)

(* C1: for every registered UDF f called in the statement just inlined and *)
(* every row, evaluating the inlined call against the row has the same     *)
(* outcome (equal values, or both fail) as execute_function(f, args) with   *)
(* the argument values taken from the row.                                  *)
C1_InlineAgreesWithExecute ==
    result.op = "inline" =>
        \A call \in TopLevelCalls(result.arg), row \in Rows :
            call.items.function_name.s \in DOMAIN udfs =>
                SameOutcome(InlinedOutcome(call, row), DirectOutcome(call, row))

(* a function_call node naming a registered UDF occurs in the tree, the    *)
(* display-only original_function_call of an inlined expression apart      *)
RECURSIVE HasRegisteredCall(_, _)
HasRegisteredCall(node, catalog) ==
    CASE IsDictObj(node) ->
            \/ IsCallNode(node) /\ IsStr(DictGet(node, "function_name", PyNone))
                                /\ node.items.function_name.s \in DOMAIN catalog
            \/ \E key \in DOMAIN node.items \ {"original_function_call"} :
                  HasRegisteredCall(node.items[key], catalog)
      [] IsListObj(node) ->
            \E i \in 1..Len(node.elems) : HasRegisteredCall(node.elems[i], catalog)
      [] OTHER -> FALSE

(* C2: the tree one call of inline_udf_in_ir returns contains no           *)
(* function_call node that names a registered UDF, at any depth.           *)
C2_InliningIsExhaustive ==
    (result.op = "inline" /\ result.out.st = "ok") => ~HasRegisteredCall(result.out.v, udfs)

(* C3: a second inlining pass over an inlined tree returns the same tree.  *)
C3_InliningIsIdempotent ==
    (result.op = "inline" /\ result.out.st = "ok") =>
        inline_udf_in_ir(result.out.v, udfs) = Ok(result.out.v)

(* a function_call node naming no registered UDF occurs in the tree *)
RECURSIVE HasUnregisteredCall(_, _)
HasUnregisteredCall(node, catalog) ==
    CASE IsDictObj(node) ->
            \/ IsCallNode(node) /\ ~(/\ IsStr(DictGet(node, "function_name", PyNone))
                                     /\ node.items.function_name.s \in DOMAIN catalog)
            \/ \E key \in DOMAIN node.items : HasUnregisteredCall(node.items[key], catalog)
      [] IsListObj(node) ->
            \E i \in 1..Len(node.elems) : HasUnregisteredCall(node.elems[i], catalog)
      [] OTHER -> FALSE

(* C4: inlining a statement that calls a function name that is not         *)
(* registered raises: no inlined IR is returned.                           *)
C4_UnregisteredCallIsRejected ==
    (result.op = "inline" /\ HasUnregisteredCall(result.arg, udfs)) => result.out.st = "err"

C6_LastWriteWins ==
    /\ (result.op = "register" /\ StoredForm(result.arg).st = "ok") =>
          /\ result.out = Ok(StoredForm(result.arg).v.items.name)
          /\ udfs[result.out.v.s] = StoredForm(result.arg).v
    /\ (result.op = "lookup" /\ result.arg.s \in DOMAIN registered) =>
          result.out = Ok(registered[result.arg.s])
    /\ result.op = "execute" =>
          result.out = execute_function(registered, result.arg, result.args, MaxCallDepth)
    /\ result.op = "inline" => result.out = inline_udf_in_ir(result.arg, registered)

(* a definition was registered over a different one of the same name *)
C6_Witness ==
    /\ result.op = "register" /\ result.out.st = "ok"
    /\ result.prior # PyNone
    /\ result.prior.items.body # udfs[result.out.v.s].items.body

(* C7: a catalog newly constructed over the storage directory holds        *)
(* exactly the functions registered and not removed since, each with the   *)
(* definition last registered; a reload leaves the manager in that state.  *)
C7_ReloadRestoresRegistered ==
    /\ _load_saved_udfs(disk).udfs = registered
    /\ _load_saved_udfs(disk).functions = DOMAIN registered
    /\ result.op = "reload" => udfs = registered /\ functions = DOMAIN registered

(* a registered function was removed while others, one of them             *)
(* re-registered, stay stored                                              *)
C7_Witness ==
    /\ result.op = "remove" /\ result.prior # PyNone
    /\ FilePath(result.arg.s) \notin DOMAIN disk
    /\ "double" \in DOMAIN registered /\ registered["double"] = DoubleDefNew
    /\ Cardinality(DOMAIN registered) >= 2
    /\ _load_saved_udfs(disk).udfs = registered

(* the declared types of a definition, in lower case *)
DeclaredTypes(udf_def) ==
    {Lower(udf_def.items.return_type.s)}
        \cup {Lower(udf_def.items.params.elems[i].items.type.s) :
                 i \in 1..Len(udf_def.items.params.elems)}

HasInvalidType(udf_def) ==
    IF HasKey(udf_def, "definition")
    THEN udf_def.items.definition.s \in {BadParamText, BadReturnText}
    ELSE ~(DeclaredTypes(udf_def) \subseteq valid_types)

(* C8: register rejects a definition whose return type or a parameter type *)
(* is not int, float or bool, in the text form and in the structured form. *)
C8_RegisterRejectsInvalidTypes ==
    (result.op = "register" /\ HasInvalidType(result.arg)) => result.out.st = "err"

(* C9 as stated: remove and lookup of a name that is not registered both   *)
(* fail with a not-found error and leave the catalog unchanged.            *)
C9_RemoveAndLookupFailWhenAbsent ==
    [][(result'.op \in {"remove", "lookup"} /\ result'.arg.s \notin DOMAIN udfs) =>
          /\ result'.out.st = "err"
          /\ udfs' = udfs /\ functions' = functions /\ disk' = disk]_vars

(* C9 amended: remove of a name that is not registered raises nothing and  *)
(* leaves the catalog and its files unchanged; lookup of a name that is    *)
(* not registered fails with the not-found error.                          *)
C9_RemoveAbsentIsNoOp ==
    [][/\ (result'.op = "remove" /\ result'.arg.s \notin DOMAIN udfs) =>
             /\ result'.out = Ok(PyNone)
             /\ udfs' = udfs /\ functions' = functions /\ disk' = disk
       /\ (result'.op = "lookup" /\ result'.arg.s \notin DOMAIN udfs) =>
             /\ result'.out = Raise("ValueError", "not found")
             /\ udfs' = udfs /\ functions' = functions /\ disk' = disk]_vars

(* a remove of a name that was not registered, on a catalog that holds     *)
(* other functions                                                         *)
C9_Witness ==
    /\ result.op = "remove" /\ result.prior = PyNone
    /\ result.arg.s \notin DOMAIN udfs
    /\ DOMAIN udfs # {}

(* C10: execute_function with a number of arguments that differs from the  *)
(* number of declared parameters raises the argument-count error, which is *)
(* raised before any binding or evaluation of the body.                    *)
C10_ArityMismatchFails ==
    (/\ result.op = "execute"
     /\ result.arg.s \in DOMAIN udfs
     /\ Len(result.args) # Len(udfs[result.arg.s].items.params.elems)) =>
        result.out = Raise("ValueError", "argument count")

(* an execute with too many arguments for a registered UDF *)
C10_Witness ==
    /\ result.op = "execute"
    /\ result.arg.s \in DOMAIN udfs
    /\ Len(result.args) > Len(udfs[result.arg.s].items.params.elems)
    /\ result.out.st = "err"

----------------------------------------------------------------------------
(* sql_runner.py: the columns an expression depends on                     *)

PySet(members) == [k |-> "set", elems |-> members]

(* a walk that looks at the node itself and never inside it *)
get_top_level_dependencies(node, actual_table_columns) ==
    IF IsStr(node) /\ \E i \in 1..Len(actual_table_columns) : actual_table_columns[i] = node.s
    THEN {node.s} ELSE {}

RECURSIVE get_column_dependencies(_, _)
get_column_dependencies(node, actual_table_columns) ==
    CASE IsStr(node) ->
            IF \E i \in 1..Len(actual_table_columns) : actual_table_columns[i] = node.s
            THEN {node.s} ELSE {}
      [] IsDictObj(node) ->
            LET node_type == DictGet(node, "type", PyNone)
                left == get_column_dependencies(DictGet(node, "left", PyNone),
                                                actual_table_columns)
                right == get_column_dependencies(DictGet(node, "right", PyNone),
                                                 actual_table_columns)
                condition == get_column_dependencies(DictGet(node, "condition", PyNone),
                                                     actual_table_columns)
                then_deps == get_column_dependencies(DictGet(node, "then", PyNone),
                                                     actual_table_columns)
                else_deps == get_column_dependencies(DictGet(node, "else", PyNone),
                                                     actual_table_columns)
                value == get_column_dependencies(DictGet(node, "value", PyNone),
                                                 actual_table_columns)
                expression == get_column_dependencies(DictGet(node, "expression", PyNone),
                                                      actual_table_columns)
            IN  CASE Is(node_type, "arithmetic") \/ Is(node_type, "comparison") ->
                        left \cup right
                  [] Is(node_type, "if_stmt") -> condition \cup then_deps \cup else_deps
                  [] Is(node_type, "return_stmt") -> value
                  [] Is(node_type, "inlined_expression") -> expression
                  [] OTHER -> {}
      [] OTHER -> {}

----------------------------------------------------------------------------
(* The evaluator, the dependency walk and the catalog applied to           *)
(* expressions and bodies outside the six comparison and four arithmetic   *)
(* operators, to calls left in a tree and to bodies that call themselves   *)

InlinedExpression(name, args, expression) ==
    PyDict([type |-> PyStr("inlined_expression"),
            original_function_call |->
                PyDict([function_name |-> PyStr(name), arguments |-> PyList(args)]),
            expression |-> expression])

Expressions == {
    Name("x"),
    PyInt(2),
    PyDict([type |-> PyStr("literal"), value |-> PyInt(2)]),
    Arithmetic(Name("x"), "/", PyInt(0)),
    Arithmetic(Name("x"), "/", PyFloat(0, 1)),
    Arithmetic(Name("abc"), "/", PyInt(0)),
    Arithmetic(Name("a"), "/", Name("b")),
    Arithmetic(PyFloat(3, 2), "/", Name("b")),
    Arithmetic(PyNone, "/", PyBool(FALSE)),
    Arithmetic(Name("a"), "%", Name("b")),
    Arithmetic(Name("b"), "+", PyDict([type |-> PyStr("literal"), value |-> PyStr("a")])),
    Comparison(Name("a"), ">", Name("b")),
    Comparison(Name("a"), "<>", Name("b")),
    IfStmt(Comparison(Name("a"), "<>", Name("b")), ReturnStmt(PyInt(1)), ReturnStmt(PyInt(0))),
    IfStmt(Comparison(Name("a"), ">", Name("b")),
           ReturnStmt(Arithmetic(Name("a"), "*", PyInt(2))), ReturnStmt(Name("b"))),
    FunctionCall("double", <<Name("x")>>),
    Arithmetic(FunctionCall("double", <<Name("x")>>), "+", PyInt(1)),
    InlinedExpression("twice", <<Name("x")>>,
                      ReturnStmt(FunctionCall("double", <<Name("x")>>))),
    InlinedExpression("double", <<Name("a")>>,
                      ReturnStmt(Arithmetic(Name("a"), "+", Name("b"))))}

EvalRows == Rows \cup {[x |-> PyFloat(5, 2), a |-> PyStr("abc"),
                        b |-> PyFloat(0, 1), age |-> PyNone]}

ColumnLists == {<<"x", "a", "b", "age">>, <<"a">>, <<>>}

(* UDFs as register_function takes them *)
OddOpDef == FunctionDef("odd_op", <<Param("age", "INT")>>, "INT",
                        IfStmt(Comparison(Name("age"), "<>", PyInt(18)),
                               ReturnStmt(PyInt(1)), ReturnStmt(PyInt(0))))
LoopDef == FunctionDef("loop", <<Param("x", "INT")>>, "INT",
                       ReturnStmt(FunctionCall("loop", <<Name("x")>>)))
AgainDef == FunctionDef("again", <<Param("n", "INT")>>, "INT",
                        IfStmt(Comparison(Name("n"), ">=", PyInt(18)),
                               ReturnStmt(Name("n")),
                               ReturnStmt(FunctionCall("again", <<PyInt(18)>>))))

EvalDefinitions == {OddOpDef, LoopDef, AgainDef}
EvalFunctionNames == {"odd_op", "loop", "again"}
EvalArgumentLists == {<<PyInt(20)>>, <<PyInt(4)>>}
EvalQueries == {SelectIR("t", <<FunctionCall("loop", <<Name("x")>>)>>, NoWhere),
                SelectIR("t", <<FunctionCall("again", <<Name("x")>>)>>, NoWhere)}

InitEval ==
    /\ udfs = NoUdfs
    /\ functions = {}
    /\ disk = [fl \in {} |-> <<>>]
    /\ parser = [udf_text \in {} |-> Ok(PyNone)]
    /\ registered = NoUdfs
    /\ tables = [nm \in {} |-> PyNone]
    /\ base_path = [nm \in {} |-> PyNone]
    /\ storage_dir = [fl \in {} |-> PyNone]
    /\ result = Call("init", PyNone, <<>>, Ok(PyNone), PyNone)

(* _evaluate_inlined_expr(expression_node, row_data) *)
Evaluate(expression_node, row_data) ==
    /\ result' = Call("evaluate", expression_node, <<PyDict(row_data)>>,
                      _evaluate_inlined_expr(expression_node, row_data), PyNone)
    /\ UNCHANGED <<udfs, functions, disk, parser, registered, tables, base_path, storage_dir>>

(* get_column_dependencies(node, actual_table_columns) *)
Dependencies(node, actual_table_columns) ==
    /\ result' = Call("dependencies", node,
                      [i \in 1..Len(actual_table_columns) |-> PyStr(actual_table_columns[i])],
                      Ok(PySet(get_column_dependencies(node, actual_table_columns))), PyNone)
    /\ UNCHANGED <<udfs, functions, disk, parser, registered, tables, base_path, storage_dir>>

NextEval ==
    \/ \E expression_node \in Expressions, row_data \in EvalRows :
          Evaluate(expression_node, row_data)
    \/ \E node \in Expressions, actual_table_columns \in ColumnLists :
          Dependencies(node, actual_table_columns)
    \/ \E udf_def \in EvalDefinitions : Register(udf_def)
    \/ \E name \in EvalFunctionNames, args \in EvalArgumentLists : Execute(name, args)
    \/ \E ir \in EvalQueries : Inline(ir)

SpecEval == InitEval /\ [][NextEval]_vars

(* C11: an arithmetic node with operator '/' whose operands evaluate and   *)
(* whose right operand evaluates to a numeric zero (0, 0.0) evaluates to   *)
(* None and raises nothing, whatever the left operand is.                  *)
C11_DivisionByZeroIsNull ==
    (/\ result.op = "evaluate"
     /\ result.arg.k = "dict"
     /\ "type" \in DOMAIN result.arg.items
     /\ result.arg.items.type = PyStr("arithmetic")
     /\ result.arg.items.op = PyStr("/")
     /\ _evaluate_inlined_expr(result.arg.items.left, result.args[1].items).st = "ok"
     /\ _evaluate_inlined_expr(result.arg.items.right, result.args[1].items).st = "ok"
     /\ LET right == _evaluate_inlined_expr(result.arg.items.right, result.args[1].items).v
        IN  right.k \in {"int", "float"} /\ right.n = 0) =>
        result.out = Ok(PyNone)

(* a division of a number by the float 0.0 taken from the row *)
C11_Witness ==
    /\ result.op = "evaluate"
    /\ result.arg = Arithmetic(PyFloat(3, 2), "/", Name("b"))
    /\ result.args[1].items.b = PyFloat(0, 1)
    /\ result.out = Ok(PyNone)

(* a comparison whose operator is none of the six *)
UnknownComparison(node) ==
    /\ IsDictObj(node)
    /\ Is(DictGet(node, "type", PyNone), "comparison")
    /\ ~\E op \in {">", "<", ">=", "<=", "=", "!="} : Is(DictGet(node, "op", PyNone), op)

(* C12: evaluating a comparison whose operator is none of >, <, >=, <=, =, *)
(* != against a row raises; and executing a registered UDF whose body is   *)
(* an if_stmt with such a condition raises as well, so that neither        *)
(* branch gives the result.                                                *)
C12_UnknownOperatorFails ==
    /\ (result.op = "evaluate" /\ UnknownComparison(result.arg)) => result.out.st = "err"
    /\ (/\ result.op = "execute"
        /\ result.arg.s \in DOMAIN udfs
        /\ Len(result.args) = Len(udfs[result.arg.s].items.params.elems)
        /\ Is(udfs[result.arg.s].items.body.items.type, "if_stmt")
        /\ UnknownComparison(udfs[result.arg.s].items.body.items.condition)) =>
           result.out.st = "err"

(* the evaluation of the node against the row reaches a function_call      *)
(* node: operands, the condition of an if_stmt and the branch it selects,  *)
(* the value of a return_stmt, the expression of an inlined_expression     *)
RECURSIVE MeetsCall(_, _)
MeetsCall(node, row) ==
    /\ IsDictObj(node)
    /\ LET node_type == DictGet(node, "type", PyNone)
       IN  \/ IsCallNode(node)
           \/ /\ Is(node_type, "arithmetic") \/ Is(node_type, "comparison")
              /\ MeetsCall(node.items.left, row) \/ MeetsCall(node.items.right, row)
           \/ /\ Is(node_type, "return_stmt")
              /\ MeetsCall(node.items.value, row)
           \/ /\ Is(node_type, "inlined_expression")
              /\ MeetsCall(node.items.expression, row)
           \/ /\ Is(node_type, "if_stmt")
              /\ \/ MeetsCall(node.items.condition, row)
                 \/ LET condition_val == _evaluate_inlined_expr(node.items.condition, row)
                    IN  /\ condition_val.st = "ok"
                        /\ IF Truthy(condition_val.v)
                           THEN MeetsCall(node.items.then, row)
                           ELSE MeetsCall(node.items.else, row)

(* C13: when the evaluation of an expression against a row reaches a       *)
(* function_call node, the evaluation raises; no value is returned.        *)
C13_CallInEvaluatorFails ==
    (result.op = "evaluate" /\ MeetsCall(result.arg, result.args[1].items)) =>
        result.out.st = "err"

(* a call left as the operand of an addition, and a call left inside the   *)
(* body of an inlined expression                                           *)
C13_Witness ==
    /\ result.op = "evaluate"
    /\ result.arg \in {Arithmetic(FunctionCall("double", <<Name("x")>>), "+", PyInt(1)),
                       InlinedExpression("twice", <<Name("x")>>,
                                         ReturnStmt(FunctionCall("double", <<Name("x")>>)))}
    /\ result.out.e = "ValueError"

(* a function_call node naming the function occurs in the tree *)
RECURSIVE CallsFunction(_, _)
CallsFunction(node, name) ==
    CASE IsDictObj(node) ->
            \/ IsCallNode(node) /\ Is(DictGet(node, "function_name", PyNone), name)
            \/ \E key \in DOMAIN node.items : CallsFunction(node.items[key], name)
      [] IsListObj(node) -> \E i \in 1..Len(node.elems) : CallsFunction(node.elems[i], name)
      [] OTHER -> FALSE

(* the body registered under the name calls the name *)
CallsItself(catalog, name) ==
    name \in DOMAIN catalog /\ CallsFunction(catalog[name].items.body, name)

(* C14: a UDF whose body calls itself is rejected with an error: executing *)
(* a registered UDF of that kind raises, and so does inlining a statement  *)
(* that calls one.                                                         *)
C14_SelfCallIsRejected ==
    /\ (/\ result.op = "execute"
        /\ CallsItself(udfs, result.arg.s)
        /\ Len(result.args) = Len(udfs[result.arg.s].items.params.elems)) =>
           result.out.st = "err"
    /\ (/\ result.op = "inline"
        /\ \E name \in DOMAIN udfs : CallsItself(udfs, name) /\ CallsFunction(result.arg, name)) =>
           result.out.st = "err"

(* the names at the leaves of an expression built from arithmetic,         *)
(* comparison, if_stmt, return_stmt and inlined_expression nodes           *)
RECURSIVE ReferencedNames(_)
ReferencedNames(node) ==
    CASE IsStr(node) -> {node.s}
      [] IsDictObj(node) ->
            IF \E node_type \in {"arithmetic", "comparison", "if_stmt", "return_stmt",
                                 "inlined_expression"} :
                  Is(DictGet(node, "type", PyNone), node_type)
            THEN UNION {ReferencedNames(node.items[key]) :
                           key \in DOMAIN node.items \ {"type", "op", "original_function_call"}}
            ELSE {}
      [] OTHER -> {}

(* C19: get_column_dependencies(expr, table_columns) is exactly the set of *)
(* table columns named at the leaves of expr, reached through arithmetic,  *)
(* comparison, if_stmt, return_stmt and inlined_expression nodes; numbers  *)
(* and literal nodes are never in it. For IF a > b THEN RETURN a * 2 ELSE  *)
(* RETURN b over a table with columns a and b it is {a, b}.                *)
C19_DependenciesAreReferencedColumns ==
    result.op = "dependencies" =>
        /\ result.out = Ok(PySet(ReferencedNames(result.arg)
                                  \cap {result.args[i].s : i \in 1..Len(result.args)}))
        /\ (/\ result.arg = IfStmt(Comparison(Name("a"), ">", Name("b")),
                                   ReturnStmt(Arithmetic(Name("a"), "*", PyInt(2))),
                                   ReturnStmt(Name("b")))
            /\ {"a", "b"} \subseteq {result.args[i].s : i \in 1..Len(result.args)}) =>
               result.out.v.elems = {"a", "b"}

(* the dependencies of IF a > b THEN RETURN a * 2 ELSE RETURN b over a     *)
(* table that has the columns a and b                                      *)
C19_Witness ==
    /\ result.op = "dependencies"
    /\ result.arg = IfStmt(Comparison(Name("a"), ">", Name("b")),
                           ReturnStmt(Arithmetic(Name("a"), "*", PyInt(2))),
                           ReturnStmt(Name("b")))
    /\ Len(result.args) = 4
    /\ result.out.v.elems = {"a", "b"}

----------------------------------------------------------------------------
(* IR/intermediateRepresentation.py: from the parsed statement to the IR   *)

generate_ir(parsed_query) ==
    LET type == DictGet(parsed_query, "type", PyNone)
    IN  IF Is(type, "create_function")
        THEN LET name == DictGet(parsed_query, "name", PyNone)
                 params == DictGet(parsed_query, "params", PyList(<<>>))
                 return_type == DictGet(parsed_query, "return_type", PyNone)
                 body == DictGet(parsed_query, "body", PyNone)
             IN  IF ~(Truthy(name) /\ Truthy(return_type) /\ Truthy(body))
                 THEN Raise("ValueError", "Missing required function definition parts")
                 ELSE Ok(PyDict([type |-> type, name |-> name, params |-> params,
                                 return_type |-> return_type, body |-> body]))
        ELSE LET condition == CASE Is(type, "select") -> "from"
                                [] Is(type, "insert") \/ Is(type, "create_table") -> "table"
                                [] OTHER -> ""
                 found == IF condition = "" THEN PyNone
                          ELSE DictGet(parsed_query, condition, PyNone)
                 into == DictGet(parsed_query, "into", PyNone)
                 table_name == IF ~Truthy(found) /\ Is(type, "insert") THEN into ELSE found
                 columns == DictGet(parsed_query, "columns", PyList(<<>>))
                 where == DictGet(parsed_query, "where", PyList(<<>>))
                 filter(filter_condition) ==
                     IF Is(DictGet(filter_condition, "type", PyNone), "function_call")
                     THEN filter_condition
                     ELSE PyDict([column |-> filter_condition.items.left,
                                  operator |-> filter_condition.items.op,
                                  value |-> filter_condition.items.right])
             IN  IF ~Truthy(found) /\ Is(type, "insert") /\ ~Truthy(into)
                 THEN Raise("ValueError", "Table name not found in parsed query.")
                 ELSE IF Truthy(where)
                 THEN IF IsDictObj(where)
                      THEN Ok(PyDict([type |-> type, table |-> table_name,
                                      columns |-> columns, where |-> where]))
                      ELSE IF \E i \in 1..Len(where.elems) :
                                ~Is(DictGet(where.elems[i], "type", PyNone), "function_call")
                                /\ ~{"left", "op", "right"} \subseteq DOMAIN where.elems[i].items
                      THEN Err("KeyError")
                      ELSE Ok(PyDict([type |-> type, table |-> table_name, columns |-> columns,
                                      where |-> PyList([i \in 1..Len(where.elems) |->
                                                           filter(where.elems[i])])]))
                 ELSE IF Is(type, "insert")
                 THEN Ok(PyDict([type |-> type, table |-> table_name, columns |-> columns,
                                 where |-> PyList(<<>>),
                                 values |-> DictGet(parsed_query, "values", PyList(<<>>))]))
                 ELSE Ok(PyDict([type |-> type, table |-> table_name, columns |-> columns,
                                 where |-> PyList(<<>>)]))

----------------------------------------------------------------------------
(* IR/intermediateRepresentation.py: validation against the files of the   *)
(* directory "data"; a directory is a function from table names to the     *)
(* content of <name>.json                                                  *)

(* the name f"{table}.json" is built from *)
FileName(table) == IF IsStr(table) THEN table.s ELSE "None"

(* JSONTable.exists(name, base_path="data") *)
exists(name, data) == FileName(name) \in DOMAIN data

(* x in lst *)
In(x, lst) == \E i \in 1..Len(lst.elems) : lst.elems[i] = x

validate_select_ir(ir, data) ==
    LET table == ir.items.table
        schema == data[FileName(table)]
        columns == ir.items.columns
        filters == ir.items.filters
    IN  IF ~exists(table, data)
        THEN Raise("ValueError", "Table does not exist in the schema.")
        ELSE IF /\ columns # PyList(<<PyStr("all")>>)
                /\ ~HasKey(schema, "columns")
                /\ Len(columns.elems) > 0
        THEN Raise("ValueError", "Invalid schema structure")
        ELSE IF /\ columns # PyList(<<PyStr("all")>>)
                /\ \E i \in 1..Len(columns.elems) : ~In(columns.elems[i], schema.items.columns)
        THEN Raise("ValueError", "Column does not exist in table")
        ELSE IF ~HasKey(ir, "filters")
        THEN Raise("ValueError", "Invalid schema structure")
        ELSE IF \E i \in 1..Len(filters.elems) :
                   /\ DOMAIN filters.elems[i].items # {}
                   /\ \A j \in 1..(i - 1) :
                         \/ DOMAIN filters.elems[j].items = {}
                         \/ /\ HasKey(filters.elems[j], "column")
                            /\ In(filters.elems[j].items.column, schema.items.columns)
                   /\ ~(HasKey(filters.elems[i], "column") /\ HasKey(schema, "columns"))
        THEN Raise("ValueError", "Invalid schema structure")
        ELSE IF \E i \in 1..Len(filters.elems) :
                   /\ DOMAIN filters.elems[i].items # {}
                   /\ HasKey(filters.elems[i], "column")
                   /\ ~In(filters.elems[i].items.column, schema.items.columns)
        THEN Raise("ValueError", "Filter column does not exist in table")
        ELSE Ok(PyBool(TRUE))

(* a validator that lets two columns of one name pass *)
validate_create_table_ir_any_names(ir, data) ==
    IF exists(ir.items.table, data)
    THEN Raise("ValueError", "Table already exists in the schema.")
    ELSE IF ~Truthy(ir.items.columns)
    THEN Raise("ValueError", "No columns specified for the new table.")
    ELSE Ok(PyBool(TRUE))

validate_create_table_ir(ir, data) ==
    LET table == ir.items.table
        columns == ir.items.columns
        (* column_set when the loop reaches the i-th column *)
        column_set(i) == {columns.elems[j].items.name : j \in 1..(i - 1)}
    IN  IF exists(table, data)
        THEN Raise("ValueError", "Table already exists in the schema.")
        ELSE IF ~Truthy(columns)
        THEN Raise("ValueError", "No columns specified for the new table.")
        ELSE IF \E i \in 1..Len(columns.elems) : columns.elems[i].items.name \in column_set(i)
        THEN Raise("ValueError", "Duplicate column name")
        ELSE Ok(PyBool(TRUE))

(* validate_ir(ir, schema): the outcome and the directory it leaves *)
validate_ir(ir, data) ==
    [data |-> data,
     out |-> CASE Is(ir.items.type, "create_function") -> Ok(PyBool(TRUE))
               [] Is(ir.items.type, "select") -> validate_select_ir(ir, data)
               [] Is(ir.items.type, "create_table") -> validate_create_table_ir(ir, data)
               [] Is(ir.items.type, "insert") ->
                    IF ~exists(ir.items.table, data)
                    THEN Raise("ValueError", "Table does not exist in the schema.")
                    ELSE Ok(PyNone)
               [] OTHER -> Ok(PyNone)]

----------------------------------------------------------------------------
(* Parsed statements                                                       *)

SelectStmt(cols, table, where) ==
    PyDict([type |-> PyStr("select"), columns |-> PyList(cols),
            from |-> PyStr(table), where |-> where])

InsertStmt(table, columns, values) ==
    PyDict([type |-> PyStr("insert"), table |-> PyStr(table),
            columns |-> PyList(columns), values |-> PyList(values)])

CreateColumn(name, type_) == PyDict([name |-> PyStr(name), datatype |-> PyStr(type_)])

CreateTableStmt(table, columns) ==
    PyDict([type |-> PyStr("create_table"), table |-> PyStr(table),
            columns |-> PyList(columns)])

CreateFunctionStmt(udf_def) ==
    PyDict([type |-> PyStr("create_function"), name |-> udf_def.items.name,
            params |-> udf_def.items.params, return_type |-> udf_def.items.return_type,
            body |-> udf_def.items.body])

(* the parsed statement without one of its keys *)
Without(parsed_query, key) ==
    PyDict([kk \in DOMAIN parsed_query.items \ {key} |-> parsed_query.items[kk]])

(* the statements the runner is given, as the transformer returns them *)
Statements == {
    CreateTableStmt("users", <<CreateColumn("id", "INT"), CreateColumn("name", "TEXT"),
                               CreateColumn("age", "INT")>>),
    CreateTableStmt("t", <<CreateColumn("x", "INT"), CreateColumn("y", "INT")>>),
    CreateTableStmt("dup", <<CreateColumn("a", "INT"), CreateColumn("a", "INT")>>),
    InsertStmt("t", <<Name("x"), Name("y")>>, <<PyInt(5), PyInt(7)>>),
    InsertStmt("users", <<Name("id"), Name("name"), Name("age")>>,
               <<PyInt(1), PyStr("Ann"), PyInt(20)>>),
    CreateFunctionStmt(DoubleDef),
    SelectStmt(<<Name("id"), Name("name")>>, "users", PyNone),
    SelectStmt(<<Name("email")>>, "users", PyNone),
    SelectStmt(<<Name("all")>>, "users", PyNone),
    SelectStmt(<<Name("name")>>, "users", Comparison(Name("age"), ">=", PyInt(18))),
    SelectStmt(<<Name("x")>>, "t", Comparison(Name("y"), ">", PyInt(1))),
    SelectStmt(<<Name("x")>>, "nosuch", PyNone),
    SelectStmt(<<FunctionCall("double", <<Name("x")>>)>>, "t", PyNone),
    SelectStmt(<<Name("x"), FunctionCall("double", <<Name("y")>>)>>, "t", PyNone),
    InsertStmt("t", <<Name("x"), Name("y")>>, <<PyInt(3), PyInt(7)>>),
    InsertStmt("t", <<Name("z")>>, <<PyInt(1)>>),
    InsertStmt("t", <<Name("x"), Name("y")>>, <<PyInt(1), PyStr("a")>>),
    SelectStmt(<<Name("y")>>, "t", PyNone),
    SelectStmt(<<FunctionCall("double", <<PyInt(2)>>)>>, "t", PyNone),
    SelectStmt(<<Name("x")>>, "t", Comparison(Name("x"), ">", PyInt(4))),
    SelectStmt(<<Name("x")>>, "t", Comparison(Name("x"), "<", Name("y"))),
    SelectStmt(<<Name("x")>>, "t", FunctionCall("double", <<Name("x")>>))}

(* parsed records generate_ir can be handed besides: a key missing, a list *)
(* of conditions, the table of an insert under "into"                      *)
ParsedQueries ==
    Statements \cup {
    Without(SelectStmt(<<Name("x")>>, "t", PyNone), "from"),
    SelectStmt(<<Name("x")>>, "", PyNone),
    Without(CreateTableStmt("t", <<CreateColumn("x", "INT")>>), "table"),
    Without(InsertStmt("t", <<Name("x")>>, <<PyInt(5)>>), "table"),
    PyDict([type |-> PyStr("insert"), into |-> PyStr("t"),
            columns |-> PyList(<<Name("x")>>), values |-> PyList(<<PyInt(5)>>)]),
    Without(CreateFunctionStmt(DoubleDef), "body"),
    SelectStmt(<<Name("name")>>, "users",
               PyList(<<Comparison(Name("age"), ">=", PyInt(18)),
                        FunctionCall("is_adult", <<Name("age")>>)>>)),
    CreateTableStmt("empty", <<>>)}

(* the IR records generate_ir returns *)
GeneratedIRs ==
    {generate_ir(parsed_query).v :
        parsed_query \in {q \in ParsedQueries : generate_ir(q).st = "ok"}}

(* select IR records that carry their conditions under "filters" *)
FilterIRs == {
    PyDict([type |-> PyStr("select"), table |-> PyStr("users"),
            columns |-> PyList(<<Name("name")>>), where |-> PyList(<<>>),
            filters |-> PyList(<<PyDict([column |-> Name("age"), operator |-> PyStr(">="),
                                         value |-> PyInt(18)])>>)]),
    PyDict([type |-> PyStr("select"), table |-> PyStr("users"),
            columns |-> PyList(<<Name("all")>>), where |-> PyList(<<>>),
            filters |-> PyList(<<PyDict([column |-> Name("email"), operator |-> PyStr("="),
                                         value |-> PyStr("a")])>>)])}

(* <name>.json as JSONTable.save writes it *)
TableFile(name, columns) ==
    PyDict([name |-> PyStr(name),
            columns |-> PyList([i \in 1..Len(columns) |-> PyStr(columns[i])]),
            rows |-> PyList(<<>>)])

(* the directory "data" the validators read *)
DataDirs == {
    [nm \in {} |-> PyNone],
    [nm \in {"users"} |-> TableFile("users", <<"id", "name", "age">>)],
    [nm \in {"t"} |-> TableFile("t", <<"x", "y">>)],
    [nm \in {"users", "t"} |->
        IF nm = "t" THEN TableFile("t", <<"x", "y">>)
        ELSE TableFile("users", <<"id", "name", "age">>)]}

----------------------------------------------------------------------------
(* core/table_manager.py: self.tables maps a table name to the dict        *)
(* {"name", "columns", "rows"} that is also written to <name>.json          *)

(* table_columns = [col["name"] for col in table["columns"]] *)
TableColumns(table) ==
    [i \in 1..Len(table.items.columns.elems) |-> table.items.columns.elems[i].items.name]

(* self.tables[name] = table_data before the check that the name is free *)
create_table_assign_first(table_manager, name, columns) ==
    [tm |-> Put(table_manager, name.s,
                PyDict([name |-> name, columns |-> columns, rows |-> PyList(<<>>)])),
     out |-> IF name.s \in DOMAIN table_manager
             THEN Raise("ValueError", "Table already exists") ELSE Ok(PyNone)]

create_table(table_manager, name, columns) ==
    IF name.s \in DOMAIN table_manager
    THEN [tm |-> table_manager, out |-> Raise("ValueError", "Table already exists")]
    ELSE [tm |-> Put(table_manager, name.s,
                     PyDict([name |-> name, columns |-> columns, rows |-> PyList(<<>>)])),
          out |-> Ok(PyNone)]

_validate_type(value, expected_type) ==
    CASE value.k = "none" -> TRUE
      [] Is(expected_type, "INT") -> value.k \in {"int", "bool"}
      [] Is(expected_type, "FLOAT") -> value.k \in {"int", "bool", "float"}
      [] Is(expected_type, "TEXT") -> value.k = "str"
      [] OTHER -> FALSE

insert_into(table_manager, table_name, columns, values) ==
    LET table == table_manager[table_name.s]
        table_columns == TableColumns(table)
        pairs == 1..(IF Len(columns.elems) < Len(values.elems)
                     THEN Len(columns.elems) ELSE Len(values.elems))
        (* the first column definition of the name *)
        index(col) == CHOOSE i \in 1..Len(table_columns) :
                         /\ table_columns[i] = col
                         /\ \A j \in 1..(i - 1) : table_columns[j] # col
        (* the value the last pair for the column assigns *)
        assigned(i) == {p \in pairs : index(columns.elems[p]) = i}
        row == [i \in 1..Len(table_columns) |->
                   IF assigned(i) = {} THEN PyNone
                   ELSE values.elems[CHOOSE p \in assigned(i) : \A q \in assigned(i) : q <= p]]
    IN  IF table_name.s \notin DOMAIN table_manager
        THEN [tm |-> table_manager, out |-> Raise("ValueError", "Table does not exist")]
        ELSE IF \E p \in 1..Len(columns.elems) :
                   \A i \in 1..Len(table_columns) : table_columns[i] # columns.elems[p]
        THEN [tm |-> table_manager, out |-> Raise("ValueError", "Column does not exist")]
        ELSE IF \E p \in pairs :
                   ~_validate_type(values.elems[p],
                                   table.items.columns.elems[index(columns.elems[p])].items.datatype)
        THEN [tm |-> table_manager, out |-> Raise("ValueError", "Invalid value type")]
        ELSE [tm |-> Put(table_manager, table_name.s,
                         PyDict([name |-> table.items.name, columns |-> table.items.columns,
                                 rows |-> PyList(Append(table.items.rows.elems, PyList(row)))])),
              out |-> Ok(PyNone)]

_evaluate_where(where, row) ==
    IF ~Truthy(where) THEN Ok(PyBool(TRUE))
    ELSE IF ~IsDictObj(where) THEN Err("TypeError")
    ELSE IF ~{"left", "op", "right"} \subseteq DOMAIN where.items THEN Err("KeyError")
    ELSE LET left == where.items.left
             op == where.items.op
             right == where.items.right
             left_val == IF IsStr(left) /\ left.s \in DOMAIN row THEN row[left.s] ELSE left
         IN  CASE Is(op, "=") -> Ok(PyBool(PyEq(left_val, right)))
               [] Is(op, "!=") -> Ok(PyBool(~PyEq(left_val, right)))
               [] Is(op, ">") -> PyGt(left_val, right)
               [] Is(op, "<") -> PyLt(left_val, right)
               [] Is(op, ">=") -> PyGe(left_val, right)
               [] Is(op, "<=") -> PyLe(left_val, right)
               [] OTHER -> Raise("ValueError", "Unsupported operator")

(* int(value), float(value) for a stored value of an INT or FLOAT column *)
ConvertStored(value, col_type) ==
    CASE value.k = "none" -> value
      [] Is(col_type, "INT") /\ IsNum(value) -> PyInt(value.n \div value.d)
      [] Is(col_type, "FLOAT") /\ IsNum(value) -> PyFloat(value.n, value.d)
      [] OTHER -> value

(* row_dict: the stored row by column name, a later column of a name over  *)
(* an earlier one                                                          *)
RowDict(table, row) ==
    LET table_columns == TableColumns(table)
        last(col) == CHOOSE i \in 1..Len(table_columns) :
                        /\ table_columns[i].s = col
                        /\ \A j \in (i + 1)..Len(table_columns) : table_columns[j].s # col
    IN  [col \in {table_columns[i].s : i \in 1..Len(table_columns)} |->
            ConvertStored(row.elems[last(col)],
                          table.items.columns.elems[last(col)].items.datatype)]

select_from(table_manager, table_name, columns, where) ==
    LET (* the rows that pass, each cut down to the requested columns *)
        Project(requested, row_dicts, kept) ==
            LET RECURSIVE rows_from(_)
                rows_from(i) ==
                    IF i > Len(row_dicts) THEN <<>>
                    ELSE (IF Truthy(kept[i].v)
                          THEN <<PyDict([col \in {requested[p].s : p \in 1..Len(requested)} |->
                                            row_dicts[i][col]])>>
                          ELSE <<>>) \o rows_from(i + 1)
            IN  IF \E i \in 1..Len(kept) : kept[i].st = "err"
                THEN FirstError(kept)
                ELSE Ok(PyList(rows_from(1)))
        Filter(requested, row_dicts) ==
            Project(requested, row_dicts,
                    [i \in 1..Len(row_dicts) |->
                        IF Truthy(where) THEN _evaluate_where(where, row_dicts[i])
                        ELSE Ok(PyBool(TRUE))])
        Select(table, table_columns, requested) ==
            IF \E p \in 1..Len(requested) :
                  \A i \in 1..Len(table_columns) : table_columns[i] # requested[p]
            THEN Raise("ValueError", "Column does not exist")
            ELSE Filter(requested, [i \in 1..Len(table.items.rows.elems) |->
                                       RowDict(table, table.items.rows.elems[i])])
        Columns(table, table_columns) ==
            Select(table, table_columns, IF Len(columns) = 0 THEN table_columns ELSE columns)
        Table(table) == Columns(table, TableColumns(table))
    IN  IF ~IsStr(table_name) \/ table_name.s \notin DOMAIN table_manager
        THEN Raise("ValueError", "Table does not exist")
        ELSE Table(table_manager[table_name.s])

get_table_schema(table_manager, name) ==
    IF ~IsStr(name) \/ name.s \notin DOMAIN table_manager
    THEN Raise("ValueError", "Table does not exist")
    ELSE Ok(table_manager[name.s].items.columns)

----------------------------------------------------------------------------
(* sql_runner.py: a statement executed against the tables and the catalog  *)

(* str(n) *)
RECURSIVE DecimalStr(_)
DecimalStr(n) ==
    IF n < 0 THEN "-" \o DecimalStr(-n)
    ELSE IF n < 10 THEN Ch(DigitChars, n + 1)
    ELSE DecimalStr(n \div 10) \o Ch(DigitChars, (n % 10) + 1)

(* col_alias of a column of the select: the name, or the text of the call  *)
(* with names quoted; the arguments are names and integers                 *)
ColumnAlias(col_item, i) ==
    LET orig_call == col_item.items.original_function_call
        arguments == orig_call.items.arguments.elems
        arg_string(arg) == IF IsStr(arg) THEN "'" \o arg.s \o "'" ELSE DecimalStr(arg.n)
        RECURSIVE join(_)
        join(j) == IF j > Len(arguments) THEN ""
                   ELSE (IF j > 1 THEN ", " ELSE "") \o arg_string(arguments[j]) \o join(j + 1)
    IN  CASE IsStr(col_item) -> col_item.s
          [] IsDictObj(col_item) /\ Is(DictGet(col_item, "type", PyNone), "inlined_expression") ->
                orig_call.items.function_name.s \o "(" \o join(1) \o ")"
          [] OTHER -> "col_" \o DecimalStr(i - 1)

(* row_tuple = tuple(sorted(processed_row.items())): two rows have equal  *)
(* tuples when they have the same aliases with == values                   *)
SameRowTuple(row, other) ==
    /\ DOMAIN row.items = DOMAIN other.items
    /\ \A alias \in DOMAIN row.items : PyEq(row.items[alias], other.items[alias])

(* results.append(processed_row) for every row that passes *)
AppendEveryRow(processed, passes, i) == TRUE

(* row_tuple not in seen_rows, for the processed row of the i-th fetched   *)
(* row: no earlier row that passed has an equal row_tuple                  *)
NotInSeenRows(processed, passes, i) ==
    \A j \in 1..(i - 1) :
        Truthy(passes[j].v) => ~SameRowTuple(processed[j], processed[i])

(* what the select branch of execute_statement does: the columns it asks   *)
(* the TableManager for, the rows it gets, the rows it prints              *)
ExecuteSelect(ir, table_manager) ==
    LET columns == ir.items.columns.elems
        where == DictGet(ir, "where", PyList(<<>>))
        (* stays []: it is assigned only when the str "columns" is in the      *)
        (* schema, from table_schema["columns"], which raises for the list of  *)
        (* column dicts get_table_schema returns                               *)
        actual_table_columns == <<>>
        stopped(out, fetch, raw) ==
            [out |-> out, fetched |-> fetch, raw |-> raw, processed |-> PyNone,
             results |-> PyNone]
        eval_result(row_dict) ==
            IF Truthy(where) /\ IsDictObj(where)
            THEN IF Is(DictGet(where, "type", PyNone), "inlined_expression")
                 THEN _evaluate_inlined_expr(where.items.expression, row_dict)
                 ELSE IF HasKey(where, "type")
                 THEN _evaluate_inlined_expr(where, row_dict)
                 ELSE Ok(PyBool(TRUE))
            ELSE Ok(PyBool(TRUE))
        value(row_dict, col_item) ==
            CASE IsStr(col_item) ->
                    Ok(IF col_item.s \in DOMAIN row_dict THEN row_dict[col_item.s] ELSE PyNone)
              [] IsDictObj(col_item)
                 /\ Is(DictGet(col_item, "type", PyNone), "inlined_expression") ->
                    _evaluate_inlined_expr(col_item.items.expression, row_dict)
              [] OTHER -> Ok(PyNone)
        (* results: the processed rows of the rows that pass, each appended    *)
        (* unless its row_tuple is in seen_rows                                 *)
        Results(fetch, raw, passes, outcomes, processed) ==
            LET RECURSIVE results_from(_)
                results_from(i) ==
                    IF i > Len(processed) THEN <<>>
                    ELSE (IF Truthy(passes[i].v) /\ NotInSeenRows(processed, passes, i)
                          THEN <<processed[i]>> ELSE <<>>) \o results_from(i + 1)
                RECURSIVE passing_from(_)
                passing_from(i) ==
                    IF i > Len(processed) THEN <<>>
                    ELSE (IF Truthy(passes[i].v) THEN <<processed[i]>> ELSE <<>>)
                             \o passing_from(i + 1)
            IN  IF \E i \in 1..Len(outcomes) : outcomes[i].st = "err"
                THEN stopped(FirstError(outcomes), fetch, raw)
                ELSE [out |-> Ok(PyBool(TRUE)), fetched |-> fetch, raw |-> raw,
                      processed |-> PyList(passing_from(1)),
                      results |-> PyList(results_from(1))]
        (* the loop over the fetched rows: passes_where, the values of the     *)
        (* columns by alias (a later column of an alias over an earlier one),  *)
        (* and the exception a row raises                                      *)
        Processed(fetch, raw, passes, values, aliases) ==
            Results(fetch, raw, passes,
                    [i \in 1..Len(passes) |->
                        IF passes[i].st = "err" THEN passes[i]
                        ELSE IF ~Truthy(passes[i].v) THEN Ok(PyNone)
                        ELSE IF \E c \in 1..Len(columns) : values[i][c].st = "err"
                        THEN FirstError(values[i])
                        ELSE Ok(PyNone)],
                    [i \in 1..Len(passes) |->
                        PyDict([alias \in {aliases[c] : c \in 1..Len(columns)} |->
                                   values[i][CHOOSE c \in 1..Len(columns) :
                                                /\ aliases[c] = alias
                                                /\ \A c2 \in (c + 1)..Len(columns) :
                                                      aliases[c2] # alias].v])])
        Fetched(fetch, raw_results) ==
            IF raw_results.st = "err" THEN stopped(raw_results, fetch, PyNone)
            ELSE Processed(fetch, raw_results.v,
                           [i \in 1..Len(raw_results.v.elems) |->
                               eval_result(raw_results.v.elems[i].items)],
                      [i \in 1..Len(raw_results.v.elems) |->
                          [c \in 1..Len(columns) |->
                              value(raw_results.v.elems[i].items, columns[c])]],
                      [c \in 1..Len(columns) |-> ColumnAlias(columns[c], c)])
        Fetch(fetch) ==
            Fetched(PyList(fetch), select_from(table_manager, ir.items.table, fetch, where))
        ToFetch(columns_to_fetch) ==
            Fetch(IF columns_to_fetch = {} THEN <<PyStr("*")>>
                  ELSE [i \in 1..Cardinality(columns_to_fetch) |->
                           PyStr(KeySeq(columns_to_fetch)[i])])
        from_columns ==
            UNION {CASE IsStr(columns[i]) -> {columns[i].s}
                     [] IsDictObj(columns[i])
                        /\ Is(DictGet(columns[i], "type", PyNone), "inlined_expression") ->
                            get_column_dependencies(columns[i].items.expression,
                                                    actual_table_columns)
                     [] OTHER -> {} : i \in 1..Len(columns)}
        from_where ==
            CASE ~Truthy(where) -> {}
              [] IsDictObj(where) -> get_column_dependencies(where, actual_table_columns)
              [] IsListObj(where) ->
                    UNION {get_column_dependencies(where.elems[i], actual_table_columns) :
                              i \in 1..Len(where.elems)}
        Schema(table_schema) ==
            IF table_schema.st = "ok" /\ Truthy(table_schema.v)
                  /\ In(PyStr("columns"), table_schema.v)
            THEN stopped(Err("TypeError"), PyNone, PyNone)
            ELSE ToFetch(from_columns \cup from_where)
    IN  Schema(get_table_schema(table_manager, ir.items.table))

(* execute_statement(ir, table_manager, udf_manager): what it returns, the *)
(* exception it caught, the tables and the catalog it leaves, and what a   *)
(* select fetched and printed                                              *)
execute_statement(ir, table_manager, m) ==
    LET type == DictGet(ir, "type", PyNone)
        done(out, tm, mgr, fetched, raw, processed, results) ==
            [returned |-> out.st = "ok", caught |-> out, tm |-> tm, m |-> mgr,
             fetched |-> fetched, raw |-> raw, processed |-> processed,
             results |-> results]
        Changed(r) == done(r.out, r.tm, m, PyNone, PyNone, PyNone, PyNone)
        Selected(r) == done(r.out, table_manager, m, r.fetched, r.raw, r.processed, r.results)
        Registered(r) == done(r.out, table_manager, r.m, PyNone, PyNone, PyNone, PyNone)
    IN  CASE Is(type, "create_table") ->
                Changed(create_table(table_manager, ir.items.table, ir.items.columns))
          [] Is(type, "insert") ->
                Changed(insert_into(table_manager, ir.items.table, ir.items.columns,
                                    ir.items.values))
          [] Is(type, "select") -> Selected(ExecuteSelect(ir, table_manager))
          [] Is(type, "create_function") ->
                Registered(register_function(
                    m, PyDict([name |-> ir.items.name, params |-> ir.items.params,
                               return_type |-> ir.items.return_type,
                               body |-> ir.items.body]), TRUE))
          [] OTHER -> done(Raise("ValueError", "Unsupported command type"),
                           table_manager, m, PyNone, PyNone, PyNone, PyNone)

(* execute_sql_command for one statement, from the parsed statement on:    *)
(* generate_ir, inline_udf_in_ir, execute_statement; an exception of the   *)
(* first two is caught and False returned                                  *)
execute_sql_command(parsed_query, table_manager, m) ==
    LET failed(out) == [returned |-> FALSE, caught |-> out, tm |-> table_manager, m |-> m,
                        fetched |-> PyNone, raw |-> PyNone, processed |-> PyNone,
                        results |-> PyNone]
        Inlined(ir) ==
            IF ir.st = "err" THEN failed(ir) ELSE execute_statement(ir.v, table_manager, m)
        Generated(ir) ==
            IF ir.st = "err" THEN failed(ir) ELSE Inlined(inline_udf_in_ir(ir.v, m.udfs))
    IN  Generated(generate_ir(parsed_query))

----------------------------------------------------------------------------
(* core/json_table.py and planner/executor.py: a JSONTable is the object   *)
(* {name, columns, rows}; the directory maps a table name to the text of   *)
(* <name>.json                                                             *)

(* JSONTable.__init__: self.rows = [] *)
JSONTable(name, columns) ==
    PyDict([name |-> name, columns |-> columns, rows |-> PyList(<<>>)])

(* JSONTable.insert(values) *)
JSONTable_insert(table, values) ==
    IF Len(values.elems) # Len(table.items.columns.elems)
    THEN [table |-> table,
          out |-> Raise("ValueError", "Number of values must match number of columns.")]
    ELSE [table |-> PyDict([name |-> table.items.name, columns |-> table.items.columns,
                            rows |-> PyList(Append(table.items.rows.elems, values))]),
          out |-> Ok(PyNone)]

(* JSONTable.select_all(): dict(zip(self.columns, row)) for every row *)
select_all(table) ==
    LET zipped(columns, row) ==
            LET n == IF Len(columns) < Len(row) THEN Len(columns) ELSE Len(row)
            IN  [col \in {columns[j].s : j \in 1..n} |->
                    row[CHOOSE j \in 1..n :
                           /\ columns[j].s = col
                           /\ \A later \in (j + 1)..n : columns[later].s # col]]
    IN  [i \in 1..Len(table.items.rows.elems) |->
            PyDict(zipped(table.items.columns.elems, table.items.rows.elems[i].elems))]

(* JSONTable.save(): json.dump of name, columns and rows into <name>.json *)
save(table, dir) ==
    Put(dir, FileName(table.items.name),
        JsonDump(PyDict([name |-> table.items.name, columns |-> table.items.columns,
                         rows |-> table.items.rows])))

(* JSONTable.load(name) *)
load(name, dir) ==
    LET Loaded(file) ==
            IF file.st = "err" THEN file
            ELSE Ok(PyDict([name |-> file.v.items.name, columns |-> file.v.items.columns,
                            rows |-> file.v.items.rows]))
    IN  IF ~exists(name, dir) THEN Raise("FileNotFoundError", "No table found")
        ELSE Loaded(JsonLoad(dir[FileName(name)]))

(* ops[operator](x, y) *)
ops(operator, x, y) ==
    CASE Is(operator, "=") -> Ok(PyBool(PyEq(x, y)))
      [] Is(operator, "!=") -> Ok(PyBool(~PyEq(x, y)))
      [] Is(operator, "<") -> PyLt(x, y)
      [] Is(operator, "<=") -> PyLe(x, y)
      [] Is(operator, ">") -> PyGt(x, y)
      [] Is(operator, ">=") -> PyGe(x, y)
      [] Is(operator, "in") ->
            IF IsListObj(y)
            THEN Ok(PyBool(\E i \in 1..Len(y.elems) : PyEq(x, y.elems[i])))
            ELSE Err("TypeError")
      [] Is(operator, "not in") ->
            IF IsListObj(y)
            THEN Ok(PyBool(\A i \in 1..Len(y.elems) : ~PyEq(x, y.elems[i])))
            ELSE Err("TypeError")

(* condition["operator"] in ops *)
InOps(operator) ==
    IsStr(operator) /\ operator.s \in {"=", "!=", "<", "<=", ">", ">=", "in", "not in"}

(* all(ops[...](row[column], value) for condition in criteria if ...): the *)
(* conditions in order, up to the first that is false or raises            *)
RECURSIVE AllConditions(_, _, _)
AllConditions(criteria, row, i) ==
    IF i > Len(criteria) THEN Ok(PyBool(TRUE))
    ELSE IF InOps(criteria[i].items.operator)
            /\ IsStr(criteria[i].items.column)
            /\ criteria[i].items.column.s \in DOMAIN row.items
    THEN LET Met(held) ==
                 IF held.st = "err" THEN held
                 ELSE IF ~Truthy(held.v) THEN Ok(PyBool(FALSE))
                 ELSE AllConditions(criteria, row, i + 1)
         IN  Met(ops(criteria[i].items.operator,
                     row.items[criteria[i].items.column.s], criteria[i].items.value))
    ELSE AllConditions(criteria, row, i + 1)

(* Executor.create_table(columns) *)
Executor_create_table(table_name, storage_type, columns, dir) ==
    IF storage_type # "json"
    THEN [dir |-> dir, out |-> Raise("ValueError", "Unsupported storage type")]
    ELSE IF ~exists(table_name, dir)
    THEN [dir |-> save(JSONTable(table_name, columns), dir), out |-> Ok(PyNone)]
    ELSE [dir |-> dir, out |-> Ok(PyNone)]

(* Executor.insert(values): the row is inserted into a new                 *)
(* JSONTable(self.table_name, self.storage.columns), and that table is     *)
(* saved                                                                   *)
Executor_insert(table_name, storage_type, values, dir) ==
    LET Inserted(r) ==
            IF r.out.st = "err" THEN [dir |-> dir, out |-> r.out]
            ELSE [dir |-> save(r.table, dir), out |-> Ok(PyNone)]
        Loaded(storage) ==
            IF storage.st = "err" THEN [dir |-> dir, out |-> storage]
            ELSE IF storage_type # "json"
            THEN [dir |-> dir, out |-> Raise("ValueError", "Unsupported storage type")]
            ELSE Inserted(JSONTable_insert(JSONTable(table_name, storage.v.items.columns),
                                           values))
    IN  Loaded(load(table_name, dir))

(* Executor.select(criteria, columns); None for an argument left out *)
Executor_select(table_name, storage_type, criteria, columns, dir) ==
    LET wanted == IF columns = PyNone THEN <<PyStr("all")>> ELSE columns.elems
        Returned(filtered_rows) ==
            Ok(IF filtered_rows = <<>> THEN PyNone ELSE PyList(filtered_rows))
        RECURSIVE kept_from(_, _, _)
        kept_from(all_rows, held, i) ==
            IF i > Len(all_rows) THEN <<>>
            ELSE (IF Truthy(held[i].v)
                  THEN <<IF wanted = <<PyStr("all")>> THEN all_rows[i]
                         ELSE PyDict([col \in {wanted[c].s : c \in 1..Len(wanted)}
                                                 \cap DOMAIN all_rows[i].items |->
                                         all_rows[i].items[col]])>>
                  ELSE <<>>) \o kept_from(all_rows, held, i + 1)
        Filtered(all_rows, held) ==
            IF \E i \in 1..Len(held) : held[i].st = "err" THEN FirstError(held)
            ELSE Returned(kept_from(all_rows, held, 1))
        Selected(all_rows) ==
            Filtered(all_rows,
                     [i \in 1..Len(all_rows) |->
                         IF criteria = PyNone THEN Ok(PyBool(TRUE))
                         ELSE AllConditions(criteria.elems, all_rows[i], 1)])
        Loaded(storage) ==
            IF storage.st = "err" THEN storage
            ELSE IF storage_type # "json"
            THEN Raise("ValueError", "Unsupported storage type")
            ELSE Selected(select_all(storage.v))
    IN  Loaded(load(table_name, dir))

----------------------------------------------------------------------------
(* Statements run against the tables                                       *)

InitSql ==
    /\ udfs = NoUdfs
    /\ functions = {}
    /\ disk = [fl \in {} |-> <<>>]
    /\ parser = [udf_text \in {} |-> Ok(PyNone)]
    /\ registered = NoUdfs
    /\ tables = [nm \in {} |-> PyNone]
    /\ base_path = [nm \in {} |-> PyNone]
    /\ storage_dir = [fl \in {} |-> PyNone]
    /\ result = Call("init", PyNone, <<>>, Ok(PyNone), PyNone)

(* generate_ir(parsed_query) *)
GenerateIr(parsed_query) ==
    /\ result' = Call("generate_ir", parsed_query, <<>>, generate_ir(parsed_query), PyNone)
    /\ UNCHANGED <<udfs, functions, disk, parser, registered, tables, base_path, storage_dir>>

(* validate_ir(ir, schema) over a directory "data" *)
Validate(ir, data) ==
    LET r == validate_ir(ir, data)
    IN  /\ result' = Call("validate", ir, <<PyDict(r.data)>>, r.out, PyDict(data))
        /\ UNCHANGED <<udfs, functions, disk, parser, registered, tables, base_path, storage_dir>>

(* the rows a table may hold in the explored states *)
MaxRows == 2

(* execute_sql_command(sql_command, table_manager, udf_manager) for the    *)
(* text of one statement; out is Ok(True) when it returns True and the     *)
(* exception it caught when it returns False; args are the columns a       *)
(* select asked the TableManager for, the rows it got and the rows it      *)
(* printed; prior is self.tables before the call                           *)
Run(parsed_query) ==
    LET table == parsed_query.items.table.s
        Returned(r) ==
            /\ tables' = r.tm
            /\ udfs' = r.m.udfs
            /\ functions' = r.m.functions
            /\ disk' = r.m.disk
            /\ registered' = IF Is(parsed_query.items.type, "create_function") /\ r.returned
                             THEN Put(registered, parsed_query.items.name.s,
                                      r.m.udfs[parsed_query.items.name.s])
                             ELSE registered
            /\ UNCHANGED <<parser, base_path, storage_dir>>
            /\ result' = Call("run", parsed_query, <<r.fetched, r.raw, r.results, r.processed>>,
                              IF r.returned THEN Ok(PyBool(TRUE)) ELSE r.caught,
                              PyDict(tables))
    IN  /\ (Is(parsed_query.items.type, "insert") /\ table \in DOMAIN tables) =>
               Len(tables[table].items.rows.elems) < MaxRows
        /\ Returned(execute_sql_command(parsed_query, tables, Manager(udfs, functions, disk)))

(* parser.parse(stmt + ";") for one statement of the command: a statement  *)
(* the grammar accepts is given as what the transformer returns for it, a  *)
(* statement it rejects as its text                                        *)
parse(stmt) ==
    IF IsStr(stmt) THEN Raise("UnexpectedInput", stmt.s) ELSE Ok(stmt)

(* the loop of execute_sql_command over the statements of a command, from  *)
(* statement i on: an exception of parse, generate_ir or inline_udf_in_ir  *)
(* leaves the loop for the except clause of the function, which returns    *)
(* False; execute_statement catches its own and returns False.  reports:   *)
(* the outcome of every statement the loop has reached                     *)
RECURSIVE ExecuteStatements(_, _, _, _, _, _)
ExecuteStatements(statements, i, table_manager, m, success, reports) ==
    LET left(out) == [returned |-> FALSE, tm |-> table_manager, m |-> m,
                      reports |-> Append(reports, out)]
        Executed(r) ==
            ExecuteStatements(statements, i + 1, r.tm, r.m, success /\ r.returned,
                              Append(reports, IF r.returned THEN Ok(PyBool(TRUE))
                                              ELSE r.caught))
        Inlined(ir) ==
            IF ir.st = "err" THEN left(ir)
            ELSE Executed(execute_statement(ir.v, table_manager, m))
        Generated(ir) ==
            IF ir.st = "err" THEN left(ir) ELSE Inlined(inline_udf_in_ir(ir.v, m.udfs))
        Parsed_(parsed_query) ==
            IF parsed_query.st = "err" THEN left(parsed_query)
            ELSE Generated(generate_ir(parsed_query.v))
    IN  IF i > Len(statements)
        THEN [returned |-> success, tm |-> table_manager, m |-> m, reports |-> reports]
        ELSE Parsed_(parse(statements[i]))

(* the commands of several statements the runner is given *)
BatchStatements == {
    CreateTableStmt("t", <<CreateColumn("x", "INT"), CreateColumn("y", "INT")>>),
    InsertStmt("t", <<Name("x"), Name("y")>>, <<PyInt(5), PyInt(7)>>),
    InsertStmt("nosuch", <<Name("x")>>, <<PyInt(5)>>),
    CreateFunctionStmt(DoubleDef),
    SelectStmt(<<Name("x")>>, "t", PyNone),
    SelectStmt(<<FunctionCall("nosuch", <<Name("x")>>)>>, "t", PyNone),
    Without(InsertStmt("t", <<Name("x")>>, <<PyInt(5)>>), "table"),
    PyStr("SELEC x FROM t")}

Batches == {<<first, second>> : first, second \in BatchStatements}
               \cup {<<first, second, second>> : first, second \in BatchStatements}

(* execute_sql_command(sql_command, table_manager, udf_manager) for a      *)
(* command of several statements                                           *)
RunBatch(statements) ==
    LET Returned(r) ==
            /\ tables' = r.tm
            /\ udfs' = r.m.udfs
            /\ functions' = r.m.functions
            /\ disk' = r.m.disk
            /\ registered' = [nm \in DOMAIN registered \cup DOMAIN r.m.udfs |->
                                 IF nm \in DOMAIN r.m.udfs THEN r.m.udfs[nm]
                                 ELSE registered[nm]]
            /\ UNCHANGED <<parser, base_path, storage_dir>>
            /\ result' = Call("batch", PyList(statements), r.reports,
                              Ok(PyBool(r.returned)), PyDict(tables))
    IN  /\ \A nm \in DOMAIN tables : Len(tables[nm].items.rows.elems) < MaxRows
        /\ Returned(ExecuteStatements(statements, 1, tables, Manager(udfs, functions, disk),
                                      TRUE, <<>>))

NextBatch == \E statements \in Batches : RunBatch(statements)

SpecBatch == InitSql /\ [][NextBatch]_vars

(* IR/udf/storage.py: UDFStorage over the files of storage_dir *)

(* os.path.join(self.storage_dir, f"{name}.udf"), relative to storage_dir *)
UdfPath(name) == name \o ".udf"

(* filename.endswith(".udf") *)
IsUdfFile(filename) ==
    Len(filename) >= 4 /\ SubSeq(filename, Len(filename) - 3, Len(filename)) = ".udf"

(* a save_udf that leaves the file of a name that is stored already *)
save_udf_once(dir, name, definition) ==
    IF UdfPath(name) \in DOMAIN dir THEN dir
    ELSE Put(dir, UdfPath(name),
             JsonDump(PyDict([name |-> PyStr(name), definition |-> PyStr(definition)])))

(* UDFStorage.save_udf(name, definition) *)
save_udf(dir, name, definition) ==
    Put(dir, UdfPath(name),
        JsonDump(PyDict([name |-> PyStr(name), definition |-> PyStr(definition)])))

(* UDFStorage.load_all_udfs(), for the order os.listdir gives the files in *)
RECURSIVE load_all_udfs(_, _)
load_all_udfs(dir, listing) ==
    IF listing = <<>> THEN <<>>
    ELSE (IF IsUdfFile(Head(listing))
          THEN <<JsonLoad(dir[Head(listing)]).v.items.definition>>
          ELSE <<>>) \o load_all_udfs(dir, Tail(listing))

(* UDFStorage.delete_udf(name) *)
delete_udf(dir, name) ==
    IF UdfPath(name) \in DOMAIN dir THEN Del(dir, UdfPath(name)) ELSE dir

(* the orders os.listdir can give the files of a directory in *)
Listings(dir) ==
    {listing \in [1..Cardinality(DOMAIN dir) -> DOMAIN dir] :
        \A i, j \in 1..Cardinality(DOMAIN dir) : listing[i] = listing[j] => i = j}

StoredNames == {"add_ints", "area", "is_adult"}
StoredTexts == {AddIntsText, AreaText}

(* the storage directory is data/udfs, where a UDFManager with the default *)
(* data_dir keeps its <name>.json files                                    *)
InitStorage ==
    /\ udfs = NoUdfs
    /\ functions = {}
    /\ disk = [fl \in {} |-> <<>>]
    /\ parser = [udf_text \in {} |-> PyNone]
    /\ registered = NoUdfs
    /\ tables = [nm \in {} |-> PyNone]
    /\ base_path = [nm \in {} |-> PyNone]
    /\ storage_dir = [fl \in {"double.json"} |-> JsonDump(DoubleDef)]
    /\ result = Call("init", PyNone, <<>>, Ok(PyNone), PyNone)

(* storage.save_udf(name, definition); registered: name -> the text last   *)
(* saved and not deleted since                                             *)
SaveUdf(name, definition) ==
    /\ storage_dir' = save_udf(storage_dir, name, definition)
    /\ registered' = Put(registered, name, PyStr(definition))
    /\ result' = Call("save_udf", PyStr(name), <<PyStr(definition)>>, Ok(PyNone),
                      PyDict(storage_dir))
    /\ UNCHANGED <<udfs, functions, disk, parser, tables, base_path>>

(* storage.delete_udf(name) *)
DeleteUdf(name) ==
    /\ storage_dir' = delete_udf(storage_dir, name)
    /\ registered' = Del(registered, name)
    /\ result' = Call("delete_udf", PyStr(name), <<>>, Ok(PyNone), PyDict(storage_dir))
    /\ UNCHANGED <<udfs, functions, disk, parser, tables, base_path>>

(* storage.load_all_udfs() *)
LoadAllUdfs ==
    \E listing \in Listings(storage_dir) :
        /\ result' = Call("load_all_udfs", PyNone, <<>>,
                          Ok(PyList(load_all_udfs(storage_dir, listing))), PyDict(storage_dir))
        /\ UNCHANGED <<udfs, functions, disk, parser, registered, tables, base_path,
                       storage_dir>>

NextStorage ==
    \/ \E name \in StoredNames, definition \in StoredTexts : SaveUdf(name, definition)
    \/ \E name \in StoredNames : DeleteUdf(name)
    \/ LoadAllUdfs

SpecStorage == InitStorage /\ [][NextStorage]_vars

(* bodies, parameter lists and argument lists _replace_params is given *)
ReplaceBodies == {
    ReturnStmt(Arithmetic(Name("a"), "-", Name("b"))),
    ReturnStmt(Arithmetic(Name("ab"), "+", Name("a"))),
    ReturnStmt(Arithmetic(Name("b"), "*", PyInt(2))),
    IfStmt(Comparison(Name("a"), ">", Name("b")), ReturnStmt(Name("a")), ReturnStmt(Name("b"))),
    ReturnStmt(FunctionCall("g", <<Name("a"), PyInt(1), Name("c")>>)),
    Name("a"), Name("x"), PyInt(3)}
ReplaceParams == {<<Param("a", "INT"), Param("b", "INT")>>, <<Param("a", "INT")>>,
                  <<Param("b", "INT"), Param("c", "INT")>>}
ReplaceArguments == {<<Name("b"), Name("a")>>, <<Name("a"), Name("b")>>,
                     <<PyInt(1), PyInt(2)>>, <<Name("'a'"), Name("c")>>,
                     <<Arithmetic(Name("b"), "+", PyInt(1)), Name("a")>>, <<Name("b")>>}

(* _replace_params(body, params, args) *)
Replace(body, params, args) ==
    /\ result' = Call("replace_params", body, args, _replace_params(body, params, args),
                      PyList(params))
    /\ UNCHANGED <<udfs, functions, disk, parser, registered, tables, base_path, storage_dir>>

NextReplace ==
    \E body \in ReplaceBodies, params \in ReplaceParams, args \in ReplaceArguments :
        Replace(body, params, args)

SpecReplace == InitSql /\ [][NextReplace]_vars

(* the tables of a TableManager constructed over a directory that holds    *)
(* t.json with one row                                                     *)
LoadedTables ==
    [nm \in {"t"} |->
        PyDict([name |-> PyStr("t"),
                columns |-> PyList(<<CreateColumn("x", "INT"), CreateColumn("y", "INT")>>),
                rows |-> PyList(<<PyList(<<PyInt(5), PyInt(7)>>)>>)])]

InitPlanner ==
    /\ udfs = NoUdfs
    /\ functions = {}
    /\ disk = [fl \in {} |-> <<>>]
    /\ parser = [udf_text \in {} |-> PyNone]
    /\ registered = NoUdfs
    /\ tables = LoadedTables
    /\ base_path = [nm \in {} |-> PyNone]
    /\ storage_dir = [fl \in {} |-> PyNone]
    /\ result = Call("init", PyNone, <<>>, Ok(PyNone), PyNone)

(* the table names, column lists, rows and criteria the Executor is given *)
PlannerTables == {"users", "t"}
PlannerColumns == {<<PyStr("id"), PyStr("age")>>, <<PyStr("x")>>}
PlannerValues == {<<PyInt(1), PyInt(20)>>, <<PyInt(2), PyInt(10)>>, <<PyInt(5)>>}
Criterion(column, operator, value) ==
    PyDict([column |-> PyStr(column), operator |-> PyStr(operator), value |-> value])
PlannerCriteria == {PyNone, PyList(<<>>),
                    PyList(<<Criterion("age", ">=", PyInt(18))>>),
                    PyList(<<Criterion("age", ">=", PyInt(18)),
                             Criterion("id", "=", PyInt(2))>>),
                    PyList(<<Criterion("age", "<", PyStr("a"))>>),
                    PyList(<<Criterion("x", "in", PyList(<<PyInt(6)>>))>>)}
PlannerSelections == {PyNone, PyList(<<PyStr("id")>>), PyList(<<PyStr("email")>>)}

(* the stored table, or None when there is no file *)
StoredTable(table_name, dir) ==
    IF exists(PyStr(table_name), dir) THEN load(PyStr(table_name), dir).v ELSE PyNone

(* Executor(table_name).create_table(columns) *)
PlannerCreate(table_name, columns) ==
    LET Returned(r) ==
            /\ base_path' = r.dir
            /\ result' = Call("planner_create", PyStr(table_name), <<PyList(columns)>>, r.out,
                              StoredTable(table_name, base_path))
    IN  /\ Returned(Executor_create_table(PyStr(table_name), "json", PyList(columns),
                                          base_path))
        /\ UNCHANGED <<udfs, functions, disk, parser, registered, tables, storage_dir>>

(* Executor(table_name).insert(values) *)
PlannerInsert(table_name, values) ==
    LET Returned(r) ==
            /\ base_path' = r.dir
            /\ result' = Call("planner_insert", PyStr(table_name), <<PyList(values)>>, r.out,
                              StoredTable(table_name, base_path))
    IN  /\ Returned(Executor_insert(PyStr(table_name), "json", PyList(values), base_path))
        /\ UNCHANGED <<udfs, functions, disk, parser, registered, tables, storage_dir>>

(* Executor(table_name).select(criteria, columns) *)
PlannerSelect(table_name, criteria, columns) ==
    /\ result' = Call("planner_select", PyStr(table_name), <<criteria, columns>>,
                      Executor_select(PyStr(table_name), "json", criteria, columns, base_path),
                      StoredTable(table_name, base_path))
    /\ UNCHANGED <<udfs, functions, disk, parser, registered, tables, base_path, storage_dir>>

(* table_manager.select_from(table_name, columns, where) *)
SelectFrom(table_name, columns, where) ==
    /\ result' = Call("select_from", PyStr(table_name), <<PyList(columns), where>>,
                      select_from(tables, PyStr(table_name), columns, where), PyNone)
    /\ UNCHANGED <<udfs, functions, disk, parser, registered, tables, base_path, storage_dir>>

NextPlanner ==
    \/ \E table_name \in PlannerTables, columns \in PlannerColumns :
          PlannerCreate(table_name, columns)
    \/ \E table_name \in PlannerTables, values \in PlannerValues :
          PlannerInsert(table_name, values)
    \/ \E table_name \in PlannerTables, criteria \in PlannerCriteria,
          columns \in PlannerSelections :
          PlannerSelect(table_name, criteria, columns)
    \/ \E columns \in {<<>>, <<PyStr("x")>>},
          where \in {PyList(<<>>), Comparison(Name("x"), ">", PyInt(4)),
                     Comparison(Name("x"), ">", PyInt(9))} :
          SelectFrom("t", columns, where)

SpecPlanner == InitPlanner /\ [][NextPlanner]_vars

(* the IR builder and the validator applied to their inputs *)
NextIr ==
    \/ \E parsed_query \in ParsedQueries : GenerateIr(parsed_query)
    \/ \E ir \in GeneratedIRs \cup FilterIRs, data \in DataDirs : Validate(ir, data)

SpecIr == InitSql /\ [][NextIr]_vars

(* statements run one after the other *)
NextSql ==
    \E parsed_query \in Statements : Run(parsed_query)

SpecSql == InitSql /\ [][NextSql]_vars

(* C15: an IR record generate_ir returns for a statement that is not a     *)
(* create_function has a non-empty table name; for a parsed statement      *)
(* with no table name generate_ir raises and returns no record.            *)
C15_TableNameIsNonEmpty ==
    (/\ result.op = "generate_ir"
     /\ ~Is(DictGet(result.arg, "type", PyNone), "create_function")
     /\ result.out.st = "ok") =>
        /\ IsStr(DictGet(result.out.v, "table", PyNone))
        /\ result.out.v.items.table.s # ""

(* the columns a select IR filters on: the column of every condition of a  *)
(* list, the left operand of a single comparison                           *)
FilterColumns(ir) ==
    LET where == ir.items.where
    IN  CASE IsListObj(where) ->
                {where.elems[i].items.column :
                    i \in {j \in 1..Len(where.elems) : HasKey(where.elems[j], "column")}}
          [] IsDictObj(where) /\ Is(DictGet(where, "type", PyNone), "comparison") ->
                {where.items.left}
          [] OTHER -> {}

(* C16: validating a select IR that generate_ir produced succeeds exactly  *)
(* when the table exists, every requested column other than the wildcard   *)
(* "all" is a column of the table and every filter column is a column of   *)
(* the table; otherwise it raises.                                         *)
C16_SelectValidation ==
    (/\ result.op = "validate"
     /\ result.arg \in GeneratedIRs
     /\ Is(result.arg.items.type, "select")) =>
        LET ir == result.arg
            data == result.prior.items
            table_columns == data[FileName(ir.items.table)].items.columns
        IN  result.out.st = "ok" <=>
               /\ exists(ir.items.table, data)
               /\ \/ ir.items.columns = PyList(<<PyStr("all")>>)
                  \/ \A i \in 1..Len(ir.items.columns.elems) :
                        In(ir.items.columns.elems[i], table_columns)
               /\ \A column \in FilterColumns(ir) : In(column, table_columns)

(* column names occur twice in the list *)
HasDuplicateNames(columns) ==
    Cardinality({columns.elems[i].items.name : i \in 1..Len(columns.elems)})
        < Len(columns.elems)

(* C17: validating a create_table IR raises when the table already exists  *)
(* in the directory, when the column list is empty, or when two columns    *)
(* have the same name, and returns True otherwise; the directory is left   *)
(* as it was.                                                              *)
C17_CreateTableValidation ==
    (/\ result.op = "validate"
     /\ Is(result.arg.items.type, "create_table")) =>
        LET ir == result.arg
            data == result.prior.items
        IN  /\ result.out.st = "err" <=>
                  \/ exists(ir.items.table, data)
                  \/ Len(ir.items.columns.elems) = 0
                  \/ HasDuplicateNames(ir.items.columns)
            /\ result.out.st = "ok" => result.out = Ok(PyBool(TRUE))
            /\ result.args = <<result.prior>>

(* a create_table with the column a twice, for a table that is not in the  *)
(* directory, is rejected and the directory is as before                   *)
C17_Witness ==
    /\ result.op = "validate"
    /\ Is(result.arg.items.type, "create_table")
    /\ HasDuplicateNames(result.arg.items.columns)
    /\ ~exists(result.arg.items.table, result.prior.items)
    /\ result.out.st = "err"
    /\ result.args = <<result.prior>>

(* the directory a validator would see if every table of the TableManager  *)
(* had its file there                                                      *)
TablesAsData(table_manager) ==
    [nm \in DOMAIN table_manager |->
        PyDict([name |-> PyStr(nm),
                columns |-> PyList(TableColumns(table_manager[nm])),
                rows |-> table_manager[nm].items.rows])]

(* C18: every statement is validated before it is inlined and executed:    *)
(* no table has two columns of one name, and a statement the validator     *)
(* rejects leaves the tables as they were.                                 *)
C18_OnlyValidatedStatementsRun ==
    /\ \A nm \in DOMAIN tables : ~HasDuplicateNames(tables[nm].items.columns)
    /\ (/\ result.op = "run"
        /\ generate_ir(result.arg).st = "ok"
        /\ validate_ir(generate_ir(result.arg).v,
                       TablesAsData(result.prior.items)).out.st = "err") =>
           tables = result.prior.items

(* C20: the columns a select asks the TableManager for are the plain       *)
(* projected columns, the table columns in the body of every inlined       *)
(* expression column and the table columns of the where clause.            *)
C20_FetchedColumnsCoverDependencies ==
    (/\ result.op = "run"
     /\ Is(result.arg.items.type, "select")
     /\ result.arg.items.from.s \in DOMAIN tables
     /\ result.args[1] # PyNone) =>
        LET ir == inline_udf_in_ir(generate_ir(result.arg).v, udfs).v
            table_columns == [i \in 1..Len(TableColumns(tables[ir.items.table.s])) |->
                                 TableColumns(tables[ir.items.table.s])[i].s]
            columns == ir.items.columns.elems
            plain == {columns[i].s : i \in {j \in 1..Len(columns) : IsStr(columns[j])}}
            inlined == UNION {get_column_dependencies(columns[i].items.expression, table_columns) :
                                 i \in {j \in 1..Len(columns) : IsDictObj(columns[j])}}
            where == get_column_dependencies(ir.items.where, table_columns)
        IN  {result.args[1].elems[i].s : i \in 1..Len(result.args[1].elems)}
               = plain \cup inlined \cup where

(* the stored rows of the table a select statement names, as row dicts *)
StoredRowDicts(table_manager, parsed_query) ==
    LET table == table_manager[parsed_query.items.from.s]
    IN  [i \in 1..Len(table.items.rows.elems) |-> RowDict(table, table.items.rows.elems[i])]

(* C21: a select whose set of required columns is empty fetches the rows   *)
(* with all the columns of the table, and the statement succeeds.          *)
C21_EmptyRequiredSetFetchesAllColumns ==
    (/\ result.op = "run"
     /\ Is(result.arg.items.type, "select")
     /\ result.arg.items.from.s \in DOMAIN tables
     /\ result.args[1] = PyList(<<PyStr("*")>>)) =>
        /\ result.out.st = "ok"
        /\ result.args[2] =
              PyList([i \in 1..Len(StoredRowDicts(tables, result.arg)) |->
                         PyDict(StoredRowDicts(tables, result.arg)[i])])

(* C22: for a select with a where clause over plain columns, the result is *)
(* the projection of exactly the stored rows on which the evaluator finds  *)
(* the where expression truthy.                                            *)
C22_WhereKeepsExactlyTruthyRows ==
    (/\ result.op = "run"
     /\ Is(result.arg.items.type, "select")
     /\ result.arg.items.from.s \in DOMAIN tables
     /\ Truthy(result.arg.items.where)
     /\ \A c \in 1..Len(result.arg.items.columns.elems) :
           /\ IsStr(result.arg.items.columns.elems[c])
           /\ result.arg.items.columns.elems[c] \in
                 {TableColumns(tables[result.arg.items.from.s])[i] :
                     i \in 1..Len(TableColumns(tables[result.arg.items.from.s]))}
     /\ inline_udf_in_ir(generate_ir(result.arg).v, udfs).st = "ok") =>
        LET where == inline_udf_in_ir(generate_ir(result.arg).v, udfs).v.items.where
            expression == IF Is(DictGet(where, "type", PyNone), "inlined_expression")
                          THEN where.items.expression ELSE where
            stored == StoredRowDicts(tables, result.arg)
            truthy(i) == LET value == _evaluate_inlined_expr(expression, stored[i])
                         IN  value.st = "ok" /\ Truthy(value.v)
            names == {result.arg.items.columns.elems[c].s :
                         c \in 1..Len(result.arg.items.columns.elems)}
            projection(i) == PyDict([col \in names |-> stored[i][col]])
        IN  /\ result.out.st = "ok"
            /\ {result.args[3].elems[j] : j \in 1..Len(result.args[3].elems)}
                  = {projection(i) : i \in {k \in 1..Len(stored) : truthy(k)}}

(* C23: the result of a select holds no two rows with the same             *)
(* (alias, value) pairs, and each processed row of a row that passed the   *)
(* filter is in the result exactly once.                                   *)
C23_ResultRowsAreDistinct ==
    (/\ result.op = "run"
     /\ Is(result.arg.items.type, "select")
     /\ result.out.st = "ok") =>
        LET results == result.args[3].elems
            processed == result.args[4].elems
        IN  /\ \A i, j \in 1..Len(results) :
                  SameRowTuple(results[i], results[j]) => i = j
            /\ \A p \in 1..Len(processed) :
                  Cardinality({j \in 1..Len(results) :
                                  SameRowTuple(results[j], processed[p])}) = 1
            /\ \A j \in 1..Len(results) :
                  \E p \in 1..Len(processed) : processed[p] = results[j]

(* two different stored rows passed, their processed rows are the same,    *)
(* and one copy is in the result                                           *)
C23_Witness ==
    /\ result.op = "run"
    /\ Is(result.arg.items.type, "select")
    /\ result.out.st = "ok"
    /\ Len(result.args[4].elems) = 2
    /\ result.args[4].elems[1] = result.args[4].elems[2]
    /\ Len(result.args[3].elems) = 1
    /\ tables[result.arg.items.from.s].items.rows.elems[1]
          # tables[result.arg.items.from.s].items.rows.elems[2]

(* C26: a create-table or insert statement that fails leaves every table   *)
(* as it was.                                                              *)
C26_FailedChangeLeavesTables ==
    (/\ result.op = "run"
     /\ result.arg.items.type.s \in {"create_table", "insert"}
     /\ result.out.st = "err") =>
        PyDict(tables) = result.prior

(* failed statements of each kind on tables with rows: a table that exists *)
(* created again, an insert of a value of the wrong type after a value of  *)
(* the right type, an insert into an unknown column                        *)
C26_Witness ==
    /\ result.op = "run"
    /\ result.out.st = "err"
    /\ "t" \in DOMAIN tables
    /\ Len(tables["t"].items.rows.elems) = 1
    /\ result.arg \in {InsertStmt("t", <<Name("x"), Name("y")>>, <<PyInt(1), PyStr("a")>>),
                       InsertStmt("t", <<Name("z")>>, <<PyInt(1)>>),
                       CreateTableStmt("t", <<CreateColumn("x", "INT"),
                                              CreateColumn("y", "INT")>>)}

(* C24: a select that matches no row yields an empty sequence and never   *)
(* None, through Executor.select and through TableManager.select_from.     *)
C24_NoRowsIsEmptySequence ==
    (/\ result.op \in {"planner_select", "select_from"}
     /\ result.out.st = "ok") =>
        IsListObj(result.out.v)

(* C29: a successful Executor.insert leaves the stored table with the rows *)
(* it held before, in their order, followed by the inserted row.           *)
C29_InsertAppendsRow ==
    (/\ result.op = "planner_insert"
     /\ result.out.st = "ok") =>
        StoredTable(result.arg.s, base_path).items.rows
            = PyList(Append(result.prior.items.rows.elems, result.args[1]))

(* C25: in a command of several statements every statement is executed,   *)
(* also after a statement that failed, and the command returns False       *)
(* exactly when at least one statement failed.                             *)
C25_BatchContinuesAfterFailure ==
    result.op = "batch" =>
        /\ Len(result.args) = Len(result.arg.elems)
        /\ (result.out.v = PyBool(FALSE))
              <=> (\E i \in 1..Len(result.args) : result.args[i].st = "err")

(* C27: add_ints, registered from the text CREATE FUNCTION add_ints(a int, *)
(* b int) RETURNS int BEGIN RETURN a + b; END;, executes to the sum of its  *)
(* two int arguments, also after the catalog was reloaded.                 *)
C27_TextDefinedArithmeticExecutes ==
    (/\ result.op = "execute"
     /\ result.arg = PyStr("add_ints")
     /\ "add_ints" \in DOMAIN udfs
     /\ Len(result.args) = 2
     /\ \A i \in 1..Len(result.args) : result.args[i].k = "int") =>
        result.out = PyAdd(result.args[1], result.args[2])

(* C28: load_all_udfs returns one definition for each name saved and not  *)
(* deleted since, the text last saved under the name, and nothing else;    *)
(* delete_udf of a name that is not stored changes nothing.                *)
C28_StorageHoldsLastSaved ==
    /\ result.op = "load_all_udfs" =>
          \E order \in [1..Cardinality(DOMAIN registered) -> DOMAIN registered] :
              /\ \A i, j \in DOMAIN order : order[i] = order[j] => i = j
              /\ result.out.v = PyList([i \in DOMAIN order |-> registered[order[i]]])
    /\ (result.op = "delete_udf" /\ UdfPath(result.arg.s) \notin DOMAIN result.prior.items) =>
          PyDict(storage_dir) = result.prior

(* two names are stored with different texts, one name is not              *)
C28_Witness ==
    /\ result.op = "load_all_udfs"
    /\ DOMAIN registered = {"add_ints", "area"}
    /\ registered["add_ints"] = PyStr(AreaText)
    /\ registered["area"] = PyStr(AddIntsText)
    /\ Len(result.out.v.elems) = 2

(* every str leaf that is a key of replacement replaced by its value, in   *)
(* one pass over the tree                                                  *)
RECURSIVE SubstituteOnce(_, _)
SubstituteOnce(node, replacement) ==
    CASE IsStr(node) -> IF node.s \in DOMAIN replacement THEN replacement[node.s] ELSE node
      [] IsDictObj(node) ->
            PyDict([key \in DOMAIN node.items |-> SubstituteOnce(node.items[key], replacement)])
      [] IsListObj(node) ->
            PyList([i \in 1..Len(node.elems) |-> SubstituteOnce(node.elems[i], replacement)])
      [] OTHER -> node

(* the argument of each parameter name: that of the first parameter of the *)
(* name, a str argument without its surrounding quotes                     *)
Replacement(params, args) ==
    [nm \in {params[i].items.name.s : i \in 1..Len(params)} |->
        LET first == CHOOSE i \in 1..Len(params) :
                        /\ params[i].items.name.s = nm
                        /\ \A j \in 1..(i - 1) : params[j].items.name.s # nm
        IN  IF IsStr(args[first]) THEN PyStr(Strip(args[first].s, "'\"")) ELSE args[first]]

(* C30: _replace_params substitutes simultaneously: a leaf equal to a      *)
(* parameter name becomes the argument of that parameter, an argument put  *)
(* in is not substituted again, and every other leaf is kept.              *)
C30_SubstitutionIsSimultaneous ==
    (/\ result.op = "replace_params"
     /\ Len(result.args) >= Len(result.prior.elems)) =>
        result.out = Ok(SubstituteOnce(result.arg,
                                       Replacement(result.prior.elems, result.args)))

(* the body a - b of g(a, b) with the arguments of the call g(b, a) *)
C30_Witness ==
    /\ result.op = "replace_params"
    /\ result.arg = ReturnStmt(Arithmetic(Name("a"), "-", Name("b")))
    /\ result.prior = PyList(<<Param("a", "INT"), Param("b", "INT")>>)
    /\ result.args = <<Name("b"), Name("a")>>
    /\ result.out = Ok(ReturnStmt(Arithmetic(Name("b"), "-", Name("a"))))

====
